---- MODULE Spec2Model ----
(***************************************************************************)
(* A model of the army-list parser (features/list_builder/army_parser.py)  *)
(* and of the list services (builder.py, validator.py) of listmaker.       *)
(*                                                                         *)
(* Text is modelled character by character on TLA+ strings.  The bullet    *)
(* character U+2022 of the roster grammar is written "*" throughout,       *)
(* because a module is ASCII only; no modelled text uses "*" otherwise.    *)
(* A Python None is the empty tuple and a present value v is <<v>>.        *)
(***************************************************************************)
EXTENDS Integers, Sequences, FiniteSets, TLC

VARIABLES
    catalog,          \* the reference tables: datasheets, keywords, model_stats, wargear
    army_text,        \* parse_army_list: the text of the call in progress
    pc,               \* parse_army_list: "idle", "scan", "convert", "done" or "error"
    lines,            \* parse_army_list: army_text.strip().split('\n')
    idx,              \* position of the loop in progress (line or unit), from 1
    faction_info,     \* the result of _extract_faction_info
    units,            \* _parse_units: the list of emitted unit dicts
    current_unit,     \* _parse_units: the open unit, or None
    current_section,  \* _parse_units: the last section label seen, or None
    godot_units,      \* parse_army_list: the ordered mapping unit_id -> unit
    army_list,        \* the army_lists row with its unit_entries, or None
    result,           \* the last ValidationResult returned, or None
    call,             \* the last call of a function without side effects, or None
    requests          \* the add-unit requests in progress, by worker

parserVars == <<army_text, pc, lines, idx, faction_info, units, current_unit,
                current_section, godot_units>>
listVars == <<army_list, result, requests>>
vars == <<catalog, army_text, pc, lines, idx, faction_info, units, current_unit,
          current_section, godot_units, army_list, result, call, requests>>

None == <<>>
Some(v) == <<v>>
Val(o) == o[1]

----------------------------------------------------------------------------
(* Strings *)

Bullet == "*"

Char(s, i) == SubSeq(s, i, i)

Drop(s, n) == SubSeq(s, n + 1, Len(s))

IsSpace(c) == c \in {" ", "\n", "\t"}

IsDigit(c) == c \in {"0", "1", "2", "3", "4", "5", "6", "7", "8", "9"}

RECURSIVE LStrip(_)
LStrip(s) == IF s # "" /\ IsSpace(Char(s, 1)) THEN LStrip(Drop(s, 1)) ELSE s

RECURSIVE RStrip(_)
RStrip(s) ==
    IF s # "" /\ IsSpace(Char(s, Len(s))) THEN RStrip(SubSeq(s, 1, Len(s) - 1)) ELSE s

\* str.strip()
Strip(s) == RStrip(LStrip(s))

AllSpace(s) == \A i \in 1..Len(s) : IsSpace(Char(s, i))

AllDigits(s) == \A i \in 1..Len(s) : IsDigit(Char(s, i))

StartsWith(s, p) == Len(p) <= Len(s) /\ SubSeq(s, 1, Len(p)) = p

EndsWith(s, p) == Len(p) <= Len(s) /\ SubSeq(s, Len(s) - Len(p) + 1, Len(s)) = p

\* the positions at which sub occurs in s
Occurrences(sub, s) ==
    {i \in 1..(Len(s) - Len(sub) + 1) : SubSeq(s, i, i + Len(sub) - 1) = sub}

\* sub in s
Contains(sub, s) ==
    \E i \in 1..(Len(s) - Len(sub) + 1) : SubSeq(s, i, i + Len(sub) - 1) = sub

Min(S) == CHOOSE m \in S : \A n \in S : m <= n

Max(S) == CHOOSE m \in S : \A n \in S : n <= m

\* str.replace(old, new): every occurrence, left to right, without overlap
RECURSIVE Replace(_, _, _)
Replace(s, old, new) ==
    IF ~Contains(old, s) THEN s
    ELSE LET i == Min(Occurrences(old, s))
         IN  SubSeq(s, 1, i - 1) \o new \o Replace(Drop(s, i + Len(old) - 1), old, new)

\* str.split('\n')
RECURSIVE Split(_)
Split(s) ==
    IF ~Contains("\n", s) THEN <<s>>
    ELSE LET i == Min(Occurrences("\n", s))
         IN  <<SubSeq(s, 1, i - 1)>> \o Split(Drop(s, i))

LowerAlpha == "abcdefghijklmnopqrstuvwxyz"

UpperAlpha == "ABCDEFGHIJKLMNOPQRSTUVWXYZ"

Digits == "0123456789"

\* the position of the character c in the string alpha, 0 when absent
IndexOf(c, alpha) ==
    IF Contains(c, alpha) THEN Min(Occurrences(c, alpha)) ELSE 0

\* the upper-case form of each lower-case letter
UpperOf == [c \in {Char(LowerAlpha, i) : i \in 1..26} |-> Char(UpperAlpha, IndexOf(c, LowerAlpha))]

\* the lower-case form of each upper-case letter
LowerOf == [c \in {Char(UpperAlpha, i) : i \in 1..26} |-> Char(LowerAlpha, IndexOf(c, UpperAlpha))]

\* the value of each decimal digit
DigitOf == [c \in {Char(Digits, i) : i \in 1..10} |-> IndexOf(c, Digits) - 1]

UpperChar(c) == IF c \in DOMAIN UpperOf THEN UpperOf[c] ELSE c

LowerChar(c) == IF c \in DOMAIN LowerOf THEN LowerOf[c] ELSE c

\* str.upper()
RECURSIVE Upper(_)
Upper(s) == IF s = "" THEN "" ELSE UpperChar(Char(s, 1)) \o Upper(Drop(s, 1))

\* str.lower()
RECURSIVE Lower(_)
Lower(s) == IF s = "" THEN "" ELSE LowerChar(Char(s, 1)) \o Lower(Drop(s, 1))

\* int() of a string of decimal digits
RECURSIVE ToInt(_)
ToInt(s) ==
    IF s = "" THEN 0
    ELSE 10 * ToInt(SubSeq(s, 1, Len(s) - 1)) + DigitOf[Char(s, Len(s))]

----------------------------------------------------------------------------
(* Regular expressions of army_parser.py *)

PointsTail == " points)"

\* A match of \((\d+) points\) that starts at the "(" at position i ends at
\* this position; 0 when there is no match at i.
PointsMatchEnd(line, i) ==
    LET ends == {e \in (i + 1)..(Len(line) - Len(PointsTail)) :
                    /\ AllDigits(SubSeq(line, i + 1, e))
                    /\ SubSeq(line, e + 1, e + Len(PointsTail)) = PointsTail}
    IN  IF i <= Len(line) /\ Char(line, i) = "(" /\ ends # {}
        THEN Min(ends) + Len(PointsTail) ELSE 0

PointsMatches(line) == {i \in 1..Len(line) : PointsMatchEnd(line, i) # 0}

\* int(group(1)) of the match at i
PointsGroup(line, i) ==
    ToInt(SubSeq(line, i + 1, PointsMatchEnd(line, i) - Len(PointsTail)))

\* re.search(r'\((\d+) points\)', line): the leftmost match, or None
PointsSearch(line) ==
    IF PointsMatches(line) = {} THEN None
    ELSE Some(PointsGroup(line, Min(PointsMatches(line))))

\* re.search(r'^(.+?)\s*\((\d+) points\)$', line): the position of the "(" of
\* the match, 0 when the line does not match.  The tail is anchored at the end
\* of the line and (.+?) takes at least one character.
HeadingOpen(line) ==
    LET ps == {p \in PointsMatches(line) : p >= 2 /\ PointsMatchEnd(line, p) = Len(line)}
    IN  IF ps = {} THEN 0 ELSE Min(ps)

\* group(1) of a match whose "(" is at p: the shortest prefix that only
\* whitespace separates from the "("
HeadingGroup1(line, p) ==
    LET js == {j \in 1..(p - 1) : AllSpace(SubSeq(line, j + 1, p - 1))}
    IN  SubSeq(line, 1, Min(js))

\* int(group(2)) of a match whose "(" is at p
HeadingGroup2(line, p) == ToInt(SubSeq(line, p + 1, Len(line) - Len(PointsTail)))

\* re.search(r'(\d+)x\s+', s): int(group(1)) of the leftmost match, or None
CountSearch(s) ==
    LET EndOf(i) == {e \in i..(Len(s) - 2) :
                        /\ AllDigits(SubSeq(s, i, e))
                        /\ Char(s, e + 1) = "x"
                        /\ IsSpace(Char(s, e + 2))}
        starts == {i \in 1..Len(s) : EndOf(i) # {}}
    IN  IF starts = {} THEN None
        ELSE LET i == Min(starts) IN Some(ToInt(SubSeq(s, i, Min(EndOf(i)))))

\* re.search(r'(\d+)', s): int(group(1)) of the leftmost, longest run, or None
FirstInt(s) ==
    LET starts == {i \in 1..Len(s) : IsDigit(Char(s, i))}
    IN  IF starts = {} THEN None
        ELSE LET i == Min(starts)
                 e == Max({k \in i..Len(s) : AllDigits(SubSeq(s, i, k))})
             IN  Some(ToInt(SubSeq(s, i, e)))

\* re.sub(r'<[^>]+>', '', s)
RECURSIVE StripTags(_)
StripTags(s) ==
    LET Close(i) == {j \in (i + 2)..Len(s) :
                        Char(s, j) = ">" /\ ~Contains(">", SubSeq(s, i + 1, j - 1))}
        opens == {i \in 1..Len(s) : Char(s, i) = "<" /\ Close(i) # {}}
    IN  IF opens = {} THEN s
        ELSE LET i == Min(opens)
             IN  SubSeq(s, 1, i - 1) \o StripTags(Drop(s, Min(Close(i))))

\* str.zfill(width)
RECURSIVE ZFill(_, _)
ZFill(s, width) == IF Len(s) >= width THEN s ELSE ZFill("0" \o s, width)

\* chr(n) for the code points from 65 ("A") to 95 ("_")
AsciiFrom65 == UpperAlpha \o "[\\]^_"

Chr(n) == Char(AsciiFrom65, n - 64)

----------------------------------------------------------------------------
(* The reference tables (database/models.py) and their queries *)

\* The tables the parser runs against.  Datasheet "2" has no stat line and
\* no wargear; the stat lines of "1" are stored out of line order.
ParserCatalog ==
    [datasheets |->
        << [datasheet_id |-> "1", name |-> "Blade Champion", faction_id |-> "AC"],
           [datasheet_id |-> "2", name |-> "Custodian Guard", faction_id |-> "AC"] >>,
     keywords |->
        << [datasheet_id |-> "1", keyword |-> "INFANTRY"],
           [datasheet_id |-> "1", keyword |-> "CHARACTER"],
           [datasheet_id |-> "2", keyword |-> "BATTLELINE"] >>,
     model_stats |->
        << [datasheet_id |-> "1", line |-> 2, movement |-> Some("12\""),
            toughness |-> Some(7), save |-> Some("4+"), wounds |-> Some(9),
            leadership |-> Some("7+"), objective_control |-> Some(3),
            base_size |-> Some("60mm")],
           [datasheet_id |-> "1", line |-> 1, movement |-> Some("6\""),
            toughness |-> Some(6), save |-> Some("2+"), wounds |-> Some(6),
            leadership |-> None, objective_control |-> Some(0),
            base_size |-> Some("40mm")] >>,
     costs |->
        << [datasheet_id |-> "1", line |-> 1, description |-> "1 model", cost |-> 120],
           [datasheet_id |-> "2", line |-> 1, description |-> "4 models", cost |-> 150] >>,
     wargear |->
        << [datasheet_id |-> "000000001", line |-> 1, line_in_wargear |-> 1,
            name |-> "Vaultswords", type |-> "Melee", range |-> Some("Melee"),
            attacks |-> Some("5"), bs_ws |-> Some("2+"), strength |-> Some("7"),
            ap |-> Some("-2"), damage |-> Some("2"),
            description |-> Some("<b>precision</b>")] >>]

\* query(...).filter(...).all() is SelectSeq, which keeps the row order.
\* .first(): the first row of a query, or None
First(rows) == IF rows = <<>> THEN None ELSE Some(rows[1])

\* .order_by(line): rows in ascending line order (lines are unique per datasheet)
RECURSIVE OrderByLine(_)
OrderByLine(rows) ==
    IF rows = <<>> THEN <<>>
    ELSE LET m == Min({rows[i].line : i \in 1..Len(rows)})
             IsMin(r) == r.line = m
             NotMin(r) == r.line # m
         IN  SelectSeq(rows, IsMin) \o OrderByLine(SelectSeq(rows, NotMin))

\* _get_unit_keywords: the keywords of a datasheet, in table order
GetUnitKeywords(datasheet_id) ==
    LET Mine(k) == k.datasheet_id = datasheet_id
        rows == SelectSeq(catalog.keywords, Mine)
    IN  [i \in 1..Len(rows) |-> rows[i].keyword]

\* _get_model_stats: the stat lines of a datasheet by ascending line
GetModelStats(datasheet_id) ==
    LET Mine(r) == r.datasheet_id = datasheet_id
    IN  OrderByLine(SelectSeq(catalog.model_stats, Mine))

\* .order_by(line, line_in_wargear)
RECURSIVE OrderWargear(_)
OrderWargear(rows) ==
    IF rows = <<>> THEN <<>>
    ELSE LET Before(a, b) == \/ a.line < b.line
                             \/ a.line = b.line /\ a.line_in_wargear <= b.line_in_wargear
             i == CHOOSE i \in 1..Len(rows) :
                     /\ \A j \in 1..Len(rows) : Before(rows[i], rows[j])
                     /\ \A j \in 1..(i - 1) : ~Before(rows[j], rows[i])
         IN  <<rows[i]>> \o OrderWargear(SubSeq(rows, 1, i - 1) \o SubSeq(rows, i + 1, Len(rows)))

\* _get_wargear
GetWargear(datasheet_id) ==
    LET Mine(r) == r.datasheet_id = datasheet_id
    IN  OrderWargear(SelectSeq(catalog.wargear, Mine))

\* SQLite's LIKE (config.py names a sqlite database): "%" matches any run
\* of characters, "_" any one character, letters match in either case.
RECURSIVE Like(_, _)
Like(s, pattern) ==
    IF pattern = "" THEN s = ""
    ELSE IF Char(pattern, 1) = "%"
         THEN \E k \in 0..Len(s) : Like(Drop(s, k), Drop(pattern, 1))
         ELSE /\ s # ""
              /\ \/ Char(pattern, 1) = "_"
                 \/ LowerChar(Char(pattern, 1)) = LowerChar(Char(s, 1))
              /\ Like(Drop(s, 1), Drop(pattern, 1))

\* the three tests of _find_datasheet.  The second is name LIKE %unit_name%.
ExactMatch(ds, unit_name) == ds.name = unit_name

PartialMatch(ds, unit_name) == Like(ds.name, "%" \o unit_name \o "%")

ReverseMatch(ds, unit_name) == Contains(Lower(ds.name), Lower(unit_name))

\* _find_datasheet: the first datasheet that passes the first test, else the
\* first that passes the second, else the first that passes the third
FindDatasheet(unit_name) ==
    LET Exact(ds) == ExactMatch(ds, unit_name)
        Partial(ds) == PartialMatch(ds, unit_name)
        Reverse(ds) == ReverseMatch(ds, unit_name)
    IN  IF First(SelectSeq(catalog.datasheets, Exact)) # None
        THEN First(SelectSeq(catalog.datasheets, Exact))
        ELSE IF First(SelectSeq(catalog.datasheets, Partial)) # None
        THEN First(SelectSeq(catalog.datasheets, Partial))
        ELSE First(SelectSeq(catalog.datasheets, Reverse))

----------------------------------------------------------------------------
(* army_parser.py: ArmyListParser *)

DetachmentKeywords == {"strike force", "patrol", "battalion"}

SectionHeaders == {"CHARACTERS", "BATTLELINE", "OTHER DATASHEETS", "ALLIED UNITS"}

\* the loop of _extract_faction_info over lines[:5], from line k on
RECURSIVE ExtractLoop(_, _, _, _)
ExtractLoop(ls, k, points, detachment) ==
    IF k > Len(ls) \/ k > 5 THEN [points |-> points, detachment |-> detachment]
    ELSE LET line == ls[k]
             points_match == PointsSearch(line)
         IN  ExtractLoop(ls, k + 1,
                 IF points_match # None THEN Val(points_match) ELSE points,
                 IF \E keyword \in DetachmentKeywords : Contains(keyword, Lower(line))
                 THEN Strip(line) ELSE detachment)

\* _extract_faction_info
ExtractFactionInfo(ls) ==
    LET found == ExtractLoop(ls, 1, 0, "")
    IN  [name |-> IF ls # <<>> THEN Strip(ls[1]) ELSE "Unknown",
         points |-> found.points,
         detachment |-> found.detachment]

\* the unit dict that a heading line opens; p is the "(" of the match
NewUnit(line, p, section) ==
    [name |-> Strip(HeadingGroup1(line, p)),
     points |-> HeadingGroup2(line, p),
     section |-> section,
     wargear |-> <<>>,
     models |-> <<>>,
     is_warlord |-> FALSE,
     enhancements |-> <<>>]

\* the special markers with the enhancement test before the warlord test
MarkUnitEnhancementFirst(u, line) ==
    IF Contains(Bullet \o " Enhancement:", line)
    THEN [u EXCEPT !.enhancements =
             Append(@, Strip(Replace(line, Bullet \o " Enhancement:", "")))]
    ELSE IF Contains(Bullet \o " Warlord", line)
    THEN [u EXCEPT !.is_warlord = TRUE]
    ELSE IF StartsWith(line, Bullet \o " ")
    THEN LET wargear_item == Strip(Replace(line, Bullet \o " ", ""))
         IN  IF Contains("x ", wargear_item)
             THEN [u EXCEPT !.models = Append(@, wargear_item)]
             ELSE [u EXCEPT !.wargear = Append(@, wargear_item)]
    ELSE u

\* the "special markers" part of the loop body, for an open unit u
MarkUnit(u, line) ==
    IF Contains(Bullet \o " Warlord", line)
    THEN [u EXCEPT !.is_warlord = TRUE]
    ELSE IF Contains(Bullet \o " Enhancement:", line)
    THEN [u EXCEPT !.enhancements =
             Append(@, Strip(Replace(line, Bullet \o " Enhancement:", "")))]
    ELSE IF StartsWith(line, Bullet \o " ")
    THEN LET wargear_item == Strip(Replace(line, Bullet \o " ", ""))
         IN  IF Contains("x ", wargear_item)
             THEN [u EXCEPT !.models = Append(@, wargear_item)]
             ELSE [u EXCEPT !.wargear = Append(@, wargear_item)]
    ELSE u

\* One pass of the loop body of _parse_units over the raw line: the values
\* of units, current_unit and current_section after it.
ParseLine(st, raw) ==
    LET line == Strip(raw)
        points_match == HeadingOpen(line)
    IN  IF line = "" THEN st
        ELSE IF Upper(line) \in SectionHeaders
        THEN [st EXCEPT !.current_section = Some(Upper(line))]
        ELSE IF points_match # 0
        THEN [st EXCEPT
                 !.units = IF st.current_unit # None
                           THEN Append(@, Val(st.current_unit)) ELSE @,
                 !.current_unit = Some(NewUnit(line, points_match, st.current_section))]
        ELSE IF st.current_unit # None
        THEN [st EXCEPT !.current_unit = Some(MarkUnit(Val(st.current_unit), line))]
        ELSE st

\* _parse_model_count: the loop over unit_data['models'], from entry k on
RECURSIVE CountLoop(_, _, _)
CountLoop(models, k, total_count) ==
    IF k > Len(models) THEN total_count
    ELSE LET count_match == CountSearch(models[k])
         IN  CountLoop(models, k + 1,
                 IF count_match # None
                 THEN total_count + Val(count_match) - 1 ELSE total_count)

\* _parse_model_count
ParseModelCount(unit_data) ==
    LET counted == CountLoop(unit_data.models, 1, 1)
        total_count == IF counted = 1 /\ unit_data.models # <<>>
                       THEN Len(unit_data.models) ELSE counted
    IN  Max({1, total_count})

\* the shared body of _parse_base_size, _parse_movement, _parse_save and
\* _parse_leadership: the first integer of the string, else the default
ParseFirstInt(str, default) ==
    IF str = None \/ str = Some("") THEN default
    ELSE IF FirstInt(Val(str)) # None THEN Val(FirstInt(Val(str))) ELSE default

ParseBaseSize(base_size_str) == ParseFirstInt(base_size_str, 32)

ParseMovement(movement_str) == ParseFirstInt(movement_str, 6)

ParseSave(save_str) == ParseFirstInt(save_str, 3)

ParseLeadership(leadership_str) == ParseFirstInt(leadership_str, 6)

\* Python's "x or d" on an optional integer: d when x is None or 0
OrElse(x, d) == IF x = None \/ x = Some(0) THEN d ELSE Val(x)

\* _format_weapon
FormatWeapon(weapon) ==
    LET description == StripTags(IF weapon.description = None THEN ""
                                 ELSE Val(weapon.description))
        weapon_data == [name |-> weapon.name, type |-> weapon.type]
        profile == [attacks |-> weapon.attacks, strength |-> weapon.strength,
                    ap |-> weapon.ap, damage |-> weapon.damage]
        typed == IF weapon.type = "Ranged"
                 THEN weapon_data @@ profile @@
                      [range |-> weapon.range, ballistic_skill |-> weapon.bs_ws]
                 ELSE IF weapon.type = "Melee"
                 THEN weapon_data @@ profile @@
                      [range |-> Some("Melee"), weapon_skill |-> weapon.bs_ws]
                 ELSE weapon_data
    IN  IF description # "" THEN typed @@ [special_rules |-> description] ELSE typed

\* _create_fallback_unit with one model per counted model instead of one model
CreateFallbackUnitCounted(unit_id, unit_data) ==
    [id |-> unit_id,
     squad_id |-> unit_id,
     owner |-> 1,
     status |-> "UNDEPLOYED",
     meta |-> [name |-> unit_data.name,
               keywords |-> <<"UNKNOWN">>,
               stats |-> [move |-> 6, toughness |-> 4, save |-> 3],
               points |-> unit_data.points,
               is_warlord |-> unit_data.is_warlord,
               enhancements |-> unit_data.enhancements,
               wargear |-> unit_data.wargear],
     models |-> [i \in 1..ParseModelCount(unit_data) |->
                    [id |-> "m1", wounds |-> 1, current_wounds |-> 1, base_mm |-> 32,
                     position |-> None, alive |-> TRUE, status_effects |-> <<>>]]]

\* _create_fallback_unit
CreateFallbackUnit(unit_id, unit_data) ==
    [id |-> unit_id,
     squad_id |-> unit_id,
     owner |-> 1,
     status |-> "UNDEPLOYED",
     meta |-> [name |-> unit_data.name,
               keywords |-> <<"UNKNOWN">>,
               stats |-> [move |-> 6, toughness |-> 4, save |-> 3],
               points |-> unit_data.points,
               is_warlord |-> unit_data.is_warlord,
               enhancements |-> unit_data.enhancements,
               wargear |-> unit_data.wargear],
     models |-> << [id |-> "m1", wounds |-> 1, current_wounds |-> 1, base_mm |-> 32,
                    position |-> None, alive |-> TRUE, status_effects |-> <<>>] >>]

\* "m" followed by the decimal digits of n (1 <= n <= 99)
ModelId(n) ==
    "m" \o (IF n >= 10 THEN Char(Digits, (n \div 10) + 1) ELSE "")
        \o Char(Digits, (n % 10) + 1)

\* the part of _convert_to_godot_format that follows a successful lookup
ResolvedUnit(unit_id, unit_data, datasheet) ==
    LET keywords == GetUnitKeywords(datasheet.datasheet_id)
        model_stats == GetModelStats(datasheet.datasheet_id)
        wargear == GetWargear(ZFill(datasheet.datasheet_id, 9))
        weapons == [i \in 1..Len(wargear) |-> FormatWeapon(wargear[i])]
        model_count == ParseModelCount(unit_data)
        base_wounds == IF model_stats # <<>> /\ model_stats[1].wounds \notin {None, Some(0)}
                       THEN Val(model_stats[1].wounds) ELSE 1
        base_size_mm == ParseBaseSize(IF model_stats # <<>>
                                      THEN model_stats[1].base_size ELSE None)
        models == [i \in 1..model_count |->
                      [id |-> ModelId(i), wounds |-> base_wounds,
                       current_wounds |-> base_wounds, base_mm |-> base_size_mm,
                       position |-> None, alive |-> TRUE, status_effects |-> <<>>]]
        unit_stats == IF model_stats # <<>>
                      THEN LET stats == model_stats[1]
                           IN  [move |-> ParseMovement(stats.movement),
                                toughness |-> OrElse(stats.toughness, 3),
                                save |-> ParseSave(stats.save),
                                wounds |-> OrElse(stats.wounds, 1),
                                leadership |-> ParseLeadership(stats.leadership),
                                objective_control |-> OrElse(stats.objective_control, 1)]
                      ELSE <<>>
    IN  [id |-> unit_id,
         squad_id |-> unit_id,
         owner |-> 1,
         status |-> "UNDEPLOYED",
         meta |-> [name |-> unit_data.name,
                   keywords |-> keywords,
                   stats |-> unit_stats,
                   points |-> unit_data.points,
                   is_warlord |-> unit_data.is_warlord,
                   enhancements |-> unit_data.enhancements,
                   wargear |-> unit_data.wargear,
                   weapons |-> weapons],
         models |-> models]

\* an exception that leaves parse_army_list
Raised(kind) == [exception |-> kind]

IsRaised(v) == DOMAIN v = {"exception"}

\* _convert_to_godot_format without its "if not datasheet" branch: reading
\* datasheet.datasheet_id of None raises AttributeError
ConvertToGodotFormatUnguarded(unit_id, unit_data) ==
    LET datasheet == FindDatasheet(unit_data.name)
    IN  IF datasheet = None
        THEN Raised("AttributeError")
        ELSE ResolvedUnit(unit_id, unit_data, Val(datasheet))

\* _convert_to_godot_format
ConvertToGodotFormat(unit_id, unit_data) ==
    LET datasheet == FindDatasheet(unit_data.name)
    IN  IF datasheet = None
        THEN CreateFallbackUnit(unit_id, unit_data)
        ELSE ResolvedUnit(unit_id, unit_data, Val(datasheet))

\* the unit_id without the letter of the position
UnitIdOfName(name, i) == "U_" \o Replace(Upper(name), " ", "_")

\* the unit_id of unit number i (from 0) of parse_army_list
UnitId(name, i) == "U_" \o Replace(Upper(name), " ", "_") \o "_" \o Chr(65 + i)

\* godot_units[unit_id] = unit: the entry of an existing key is replaced in
\* place, a new key goes last
DictSet(d, key, value) ==
    IF \E i \in 1..Len(d) : d[i].key = key
    THEN [i \in 1..Len(d) |-> IF d[i].key = key THEN [key |-> key, value |-> value] ELSE d[i]]
    ELSE Append(d, [key |-> key, value |-> value])

----------------------------------------------------------------------------
(* Input texts *)

\* the longest generated text, in lines
MaxLines == 3

\* the lines the generated texts are made of
InputLines ==
    {"", "CHARACTERS",
     "Blade Champion (135 points)", "Ork Boyz (80 points)",
     "Guard (45 points)", "Blade Champion Elite (150 points)",
     "* Warlord", "* Enhancement: Aura", "* 4x Ork Boy", "* Big choppa"}

\* the end-to-end example of the specification, with "*" for the bullet
ExampleText ==
    "Adeptus Custodes\nStrike Force (2000 points)\n\nCHARACTERS\n\nBlade Champion (135 points)\n* Warlord\n"

\* a text of blank and malformed lines only: no line is a unit heading
MalformedText == "  \n(5 points)\n\nOrk Boyz (x points)\n * Warlord\n"

\* a text whose second and third lines both carry a detachment keyword, and
\* whose third and fourth both carry a points pattern
TwoDetachmentsText ==
    "Orks\nPatrol Detachment\nStrike Force (1000 points)\nOrk Boyz (80 points)\n"

\* a text whose only detachment keyword is on its sixth line
LateDetachmentText == "Orks\n\n\n\n\nBattalion\n"

\* a text with a bullet line before any unit, a heading that starts with a
\* bullet, and bullet lines between a section header and the next heading
SectionsText ==
    "* Warlord\nCHARACTERS\n* Guard (45 points)\n* Big choppa\nBATTLELINE\n* 4x Ork Boy\nOrk Boyz (80 points)\n* Warlord\n"

\* a text whose unit is followed by a line of each kind, one of them with
\* both the enhancement and the warlord marker
MarkersText ==
    "Guard (45 points)\n* Enhancement: * Warlord\n* Enhancement: Aura\n* 4x Ork Boy\n* Big choppa\nnote\n* 2x Ork Boy\n* Warlord\n* Enhancement: Veil\n"

\* '\n'.join(ls)
RECURSIVE Join(_)
Join(ls) ==
    IF ls = <<>> THEN ""
    ELSE IF Len(ls) = 1 THEN ls[1]
    ELSE ls[1] \o "\n" \o Join(Tail(ls))

Texts ==
    {ExampleText, MalformedText, TwoDetachmentsText, LateDetachmentText,
     SectionsText, MarkersText} \cup
    {Join(ls) : ls \in UNION {[1..n -> InputLines] : n \in 0..MaxLines}}

----------------------------------------------------------------------------
(* parse_army_list, step by step *)

ParserIdle ==
    /\ army_text = ""
    /\ pc = "idle"
    /\ lines = <<>>
    /\ idx = 0
    /\ faction_info = None
    /\ units = <<>>
    /\ current_unit = None
    /\ current_section = None
    /\ godot_units = <<>>

\* a call that finds the units list of the call before it
EnterParseKeepingUnits(text) ==
    /\ army_text' = text
    /\ lines' = Split(Strip(text))
    /\ faction_info' = Some(ExtractFactionInfo(lines'))
    /\ units' = units
    /\ current_unit' = None
    /\ current_section' = None
    /\ godot_units' = <<>>
    /\ idx' = 1
    /\ pc' = "scan"

\* the call: lines 25-28, and the locals of _parse_units before its loop;
\* every local is new in each call
EnterParse(text) ==
    /\ army_text' = text
    /\ lines' = Split(Strip(text))
    /\ faction_info' = Some(ExtractFactionInfo(lines'))
    /\ units' = <<>>
    /\ current_unit' = None
    /\ current_section' = None
    /\ godot_units' = <<>>
    /\ idx' = 1
    /\ pc' = "scan"

\* a call of parse_army_list on a new parser
ParseArmyList(text) ==
    /\ pc = "idle"
    /\ EnterParse(text)
    /\ UNCHANGED <<catalog, call, listVars>>

\* one iteration of "for line in lines" of _parse_units
ScanLine ==
    /\ pc = "scan"
    /\ idx <= Len(lines)
    /\ LET st == ParseLine([units |-> units, current_unit |-> current_unit,
                            current_section |-> current_section], lines[idx])
       IN  /\ units' = st.units
           /\ current_unit' = st.current_unit
           /\ current_section' = st.current_section
    /\ idx' = idx + 1
    /\ UNCHANGED <<catalog, call, army_text, pc, lines, faction_info, godot_units, listVars>>

\* an end of _parse_units that returns without appending the last unit
ScanEndDroppingLast ==
    /\ pc = "scan"
    /\ idx > Len(lines)
    /\ units' = units
    /\ idx' = 1
    /\ pc' = "convert"
    /\ UNCHANGED <<catalog, call, army_text, lines, faction_info, current_unit,
                   current_section, godot_units, listVars>>

\* the end of _parse_units: the last unit is appended, and the units returned
ScanEnd ==
    /\ pc = "scan"
    /\ idx > Len(lines)
    /\ units' = IF current_unit # None THEN Append(units, Val(current_unit)) ELSE units
    /\ idx' = 1
    /\ pc' = "convert"
    /\ UNCHANGED <<catalog, call, army_text, lines, faction_info, current_unit,
                   current_section, godot_units, listVars>>

\* one iteration of "for i, unit_data in enumerate(units)"; chr() raises
\* ValueError beyond the last code point, 0x10FFFF
ConvertUnit ==
    /\ pc = "convert"
    /\ idx <= Len(units)
    /\ IF 65 + (idx - 1) > 1114111
       THEN pc' = "error" /\ UNCHANGED <<godot_units, idx>>
       ELSE LET unit_data == units[idx]
                unit_id == UnitId(unit_data.name, idx - 1)
                unit == ConvertToGodotFormat(unit_id, unit_data)
            IN  IF IsRaised(unit)
                THEN pc' = "error" /\ UNCHANGED <<godot_units, idx>>
                ELSE /\ godot_units' = DictSet(godot_units, unit_id, unit)
                     /\ idx' = idx + 1
                     /\ pc' = pc
    /\ UNCHANGED <<catalog, call, army_text, lines, faction_info, units, current_unit,
                   current_section, listVars>>

\* return {"faction": faction_info, "units": godot_units}
ParseReturn ==
    /\ pc = "convert"
    /\ idx > Len(units)
    /\ pc' = "done"
    /\ UNCHANGED <<catalog, call, army_text, lines, idx, faction_info, units, current_unit,
                   current_section, godot_units, listVars>>

\* one add-unit request per worker; a worker between requests is "idle"
Workers == {1, 2}
IdleRequest == [pc |-> "idle", list_id |-> "", datasheet_id |-> "", quantity |-> 0,
                total_points |-> 0]
NoRequests == [w \in Workers |-> IdleRequest]

ListsIdle ==
    /\ army_list = None
    /\ result = None
    /\ requests = NoRequests

InitParse ==
    /\ catalog = ParserCatalog
    /\ ParserIdle
    /\ ListsIdle
    /\ call = None

\* a call of parse_army_list on any of the texts
Parse == pc = "idle" /\ \E text \in Texts : ParseArmyList(text)

NextParse ==
    \/ Parse
    \/ ScanLine
    \/ ScanEnd
    \/ ConvertUnit
    \/ ParseReturn

SpecParse == InitParse /\ [][NextParse]_vars

----------------------------------------------------------------------------
(* Properties of the parser, checked under SpecParse *)

\* the document of a finished call
ParseDone == pc = "done"

\* C1: the end-to-end example text parses to exactly one unit; that unit is
\* named "Blade Champion", is the warlord and lies in section CHARACTERS; the
\* declared points are 2000 and the detachment name contains "Strike Force".
C1_ExampleYieldsOneUnit ==
    (ParseDone /\ army_text = ExampleText) =>
        /\ Len(godot_units) = 1
        /\ godot_units[1].value.meta.name = "Blade Champion"
        /\ godot_units[1].value.meta.is_warlord
        /\ units[1].section = Some("CHARACTERS")
        /\ Val(faction_info).points = 2000
        /\ Contains("Strike Force", Val(faction_info).detachment)

\* the document value: the faction dict and one entry per parsed unit
IsDocument ==
    /\ faction_info # None
    /\ DOMAIN Val(faction_info) = {"name", "points", "detachment"}
    /\ Len(godot_units) = Len(units)
    /\ \A i \in 1..Len(godot_units) :
           {"id", "meta", "models"} \subseteq DOMAIN godot_units[i].value

IsFallbackOf(unit, unit_data) ==
    /\ unit.meta.keywords = <<"UNKNOWN">>
    /\ unit.meta.stats = [move |-> 6, toughness |-> 4, save |-> 3]
    /\ Len(unit.models) = 1
    /\ unit.models[1].wounds = 1
    /\ unit.models[1].current_wounds = 1
    /\ unit.models[1].base_mm = 32
    /\ unit.models[1].alive
    /\ unit.meta.is_warlord = unit_data.is_warlord
    /\ unit.meta.enhancements = unit_data.enhancements
    /\ unit.meta.wargear = unit_data.wargear
    /\ unit.meta.points = unit_data.points

AllFallback == \A i \in 1..Len(godot_units) : IsFallbackOf(godot_units[i].value, units[i])

\* the unit name appears in the catalog: as the name of a datasheet or
\* within the name of a datasheet
AppearsInCatalog(unit_name) ==
    \E i \in 1..Len(catalog.datasheets) :
        \/ ExactMatch(catalog.datasheets[i], unit_name)
        \/ PartialMatch(catalog.datasheets[i], unit_name)

\* no datasheet passes any of the three tests of _find_datasheet
MatchesNothing(unit_name) ==
    \A i \in 1..Len(catalog.datasheets) :
        /\ ~ExactMatch(catalog.datasheets[i], unit_name)
        /\ ~PartialMatch(catalog.datasheets[i], unit_name)
        /\ ~ReverseMatch(catalog.datasheets[i], unit_name)

\* C3 as stated: when no unit name of the text appears in the catalog, every
\* emitted unit is a fallback unit (keywords UNKNOWN, stats 6/4/3, one model
\* of 1 wound on a 32 mm base, the parsed warlord flag, enhancements, wargear
\* and points).
C3_AbsentNamesGiveFallbackUnits ==
    (ParseDone /\ \A i \in 1..Len(units) : ~AppearsInCatalog(units[i].name))
        => AllFallback

\* C3, amended: when no unit name of the text matches a datasheet under any
\* of the three tests of _find_datasheet (equal names, the datasheet name
\* containing the unit name, the unit name containing the datasheet name
\* without regard to case), every emitted unit is a fallback unit.
C3_UnmatchedNamesGiveFallbackUnits ==
    (ParseDone /\ \A i \in 1..Len(units) : MatchesNothing(units[i].name))
        => AllFallback

\* a finished call whose only unit matches nothing, is the warlord and has a
\* model-count line
C3_Witness ==
    /\ ParseDone
    /\ Len(units) = 1
    /\ MatchesNothing(units[1].name)
    /\ units[1].is_warlord
    /\ units[1].models # <<>>
    /\ Len(godot_units[1].value.models) = 1

----------------------------------------------------------------------------
(* The list services: builder.py (ListBuilder) and validator.py (ListValidator) *)

\* The tables the list services run against: a Space Marines character, an
\* allied Astra Militarum battleline unit, and a Chaos unit without cost rows.
ListCatalog ==
    [datasheets |->
        << [datasheet_id |-> "000000001", name |-> "Space Marine Captain", faction_id |-> "SM"],
           [datasheet_id |-> "000000002", name |-> "Cadian Shock Troops", faction_id |-> "AM"],
           [datasheet_id |-> "000000003", name |-> "Chaos Spawn", faction_id |-> "CSM"] >>,
     keywords |->
        << [datasheet_id |-> "000000001", keyword |-> "INFANTRY"],
           [datasheet_id |-> "000000001", keyword |-> "CHARACTER"],
           [datasheet_id |-> "000000002", keyword |-> "INFANTRY"],
           [datasheet_id |-> "000000002", keyword |-> "BATTLELINE"],
           [datasheet_id |-> "000000003", keyword |-> "BEAST"] >>,
     model_stats |-> <<>>,
     costs |->
        << [datasheet_id |-> "000000001", line |-> 2, description |-> "2 models", cost |-> 150],
           [datasheet_id |-> "000000001", line |-> 1, description |-> "1 model", cost |-> 100],
           [datasheet_id |-> "000000002", line |-> 1, description |-> "10 models", cost |-> 101] >>,
     wargear |-> <<>>]

\* The same tables with the first two datasheets only.
LimitsCatalog == [ListCatalog EXCEPT !.datasheets = SubSeq(@, 1, 2)]

\* the list_id given to the list that create_list stores
ListIds == {"L1"}

\* identifiers that name no row
Missing == "nonexistent"

\* the faction_id, point_limit and quantity arguments that are tried
ListFactions == {"SM"}

\* the same with a faction that no datasheet of the catalog is allied with
AllFactions == {"SM", "CSM"}

PointLimits == {201}

AddQuantities == {1, 2}

\* the quantity argument of add_unit when it is left to its default
DefaultQuantity == {1}

CheckQuantities == {1, 4}

\* the most unit entries a list is given when it draws on the whole catalog
MaxUnits == 3

\* the most unit entries a list is given when it draws on two datasheets
MaxRepeats == 7

DatasheetIds == {catalog.datasheets[i].datasheet_id : i \in 1..Len(catalog.datasheets)}

\* query(ArmyListModel).filter(list_id == ...).first()
GetList(list_id) ==
    IF army_list # None /\ Val(army_list).list_id = list_id THEN army_list ELSE None

\* query(DatasheetModel).filter(datasheet_id == ...).first()
GetDatasheet(datasheet_id) ==
    LET Mine(ds) == ds.datasheet_id = datasheet_id
    IN  First(SelectSeq(catalog.datasheets, Mine))

\* any(k.keyword == keyword for k in the keyword rows of the datasheet)
HasKeyword(datasheet_id, keyword) ==
    \E i \in 1..Len(catalog.keywords) :
        /\ catalog.keywords[i].datasheet_id = datasheet_id
        /\ catalog.keywords[i].keyword = keyword

\* ValidationError / ValidationWarning: the code, the field, and the values
\* that the message is formatted from
Issue(code, field, about) == [code |-> code, field |-> field, about |-> about]

\* _check_point_limit with >= in place of >
CheckPointLimitInclusive(list) ==
    IF list.total_points >= list.point_limit
    THEN <<Issue("EXCEEDS_POINT_LIMIT", "total_points", <<list.point_limit, list.total_points>>)>>
    ELSE <<>>

\* _check_point_limit: the errors it appends
CheckPointLimit(list) ==
    IF list.total_points > list.point_limit
    THEN <<Issue("EXCEEDS_POINT_LIMIT", "total_points", <<list.point_limit, list.total_points>>)>>
    ELSE <<>>

\* _check_warlord without the search for a CHARACTER unit
CheckWarlordAnyUnit(list) ==
    IF ~(\E i \in 1..Len(list.units) : list.units[i].is_warlord) /\ list.units # <<>>
    THEN <<Issue("NO_WARLORD", "units", <<>>)>>
    ELSE <<>>

\* _check_warlord: the errors it appends
CheckWarlord(list) ==
    LET has_warlord == \E i \in 1..Len(list.units) : list.units[i].is_warlord
        has_character ==
            \E i \in 1..Len(list.units) :
                LET datasheet == GetDatasheet(list.units[i].datasheet_id)
                IN  /\ datasheet # None
                    /\ HasKeyword(Val(datasheet).datasheet_id, "CHARACTER")
    IN  IF ~has_warlord /\ list.units # <<>> /\ has_character
        THEN <<Issue("NO_WARLORD", "units", <<>>)>>
        ELSE <<>>

\* the keys of Counter(unit.datasheet_id for unit in units), in the order of
\* their first unit
RECURSIVE CounterKeys(_)
CounterKeys(us) ==
    IF us = <<>> THEN <<>>
    ELSE LET rest == CounterKeys(SubSeq(us, 1, Len(us) - 1))
             id == us[Len(us)].datasheet_id
         IN  IF \E i \in 1..Len(rest) : rest[i] = id THEN rest ELSE Append(rest, id)

\* the count that Counter holds for a datasheet_id
CountOf(us, datasheet_id) ==
    Cardinality({i \in 1..Len(us) : us[i].datasheet_id = datasheet_id})

\* max_allowed with 7 for a BATTLELINE datasheet
MaxAllowedSeven(datasheet_id) == IF HasKeyword(datasheet_id, "BATTLELINE") THEN 7 ELSE 3

\* max_allowed: 6 for a BATTLELINE datasheet, 3 otherwise
MaxAllowed(datasheet_id) == IF HasKeyword(datasheet_id, "BATTLELINE") THEN 6 ELSE 3

\* the body of the loop of _check_datasheet_limits for one Counter item
DatasheetLimitIssue(us, datasheet_id) ==
    LET datasheet == GetDatasheet(datasheet_id)
        count == CountOf(us, datasheet_id)
        max_allowed == MaxAllowed(datasheet_id)
    IN  IF datasheet = None THEN <<>>
        ELSE IF count > max_allowed
        THEN <<Issue("EXCEEDS_DATASHEET_LIMIT", "units",
                     <<Val(datasheet).name, count, max_allowed>>)>>
        ELSE <<>>

\* the concatenation of f[1], ..., f[n]
RECURSIVE Flatten(_)
Flatten(f) == IF f = <<>> THEN <<>> ELSE Flatten(SubSeq(f, 1, Len(f) - 1)) \o f[Len(f)]

\* _check_datasheet_limits: the errors it appends
CheckDatasheetLimits(list) ==
    LET keys == CounterKeys(list.units)
    IN  Flatten([k \in 1..Len(keys) |-> DatasheetLimitIssue(list.units, keys[k])])

\* _check_minimum_units without the return after NO_UNITS
CheckMinimumUnitsNoReturn(list) ==
    (IF list.units = <<>> THEN <<Issue("NO_UNITS", "units", <<>>)>> ELSE <<>>)
    \o (IF \E i \in 1..Len(list.units) : HasKeyword(list.units[i].datasheet_id, "BATTLELINE")
        THEN <<>>
        ELSE <<Issue("NO_BATTLELINE", "units", <<>>)>>)

\* _check_minimum_units: the warnings it appends
CheckMinimumUnits(list) ==
    IF list.units = <<>>
    THEN <<Issue("NO_UNITS", "units", <<>>)>>
    ELSE IF \E i \in 1..Len(list.units) : HasKeyword(list.units[i].datasheet_id, "BATTLELINE")
    THEN <<>>
    ELSE <<Issue("NO_BATTLELINE", "units", <<>>)>>

ImperialFactions == {"SM", "AM", "AS", "GK", "AC", "AoI", "QI"}

ChaosFactions == {"CSM", "DG", "TS", "WE", "EC", "CD", "QT"}

\* _are_factions_allied with no alliance at all
AreFactionsAlliedNever(faction1, faction2) == FALSE

\* _are_factions_allied
AreFactionsAllied(faction1, faction2) ==
    \/ faction1 \in ImperialFactions /\ faction2 \in ImperialFactions
    \/ faction1 \in ChaosFactions /\ faction2 \in ChaosFactions

\* the body of the loop of _check_faction_consistency for one unit
FactionIssue(army_faction, unit) ==
    LET datasheet == GetDatasheet(unit.datasheet_id)
    IN  IF datasheet = None THEN <<>>
        ELSE IF /\ Val(datasheet).faction_id # army_faction
                /\ ~AreFactionsAllied(army_faction, Val(datasheet).faction_id)
        THEN <<Issue("FACTION_MISMATCH", "units",
                     <<Val(datasheet).name, Val(datasheet).faction_id, army_faction>>)>>
        ELSE <<>>

\* _check_faction_consistency: the errors it appends
CheckFactionConsistency(list) ==
    Flatten([i \in 1..Len(list.units) |-> FactionIssue(list.faction_id, list.units[i])])

\* the result with is_valid also asking for no warnings
CheckedStrict(errors, warnings) ==
    [is_valid |-> Len(errors) = 0 /\ Len(warnings) = 0, errors |-> errors, warnings |-> warnings]

\* ValidationResult(is_valid=len(errors) == 0, errors=errors, warnings=warnings)
Checked(errors, warnings) ==
    [is_valid |-> Len(errors) = 0, errors |-> errors, warnings |-> warnings]

\* the early return with a warning beside its error
NotFoundWarned(code, field, id) ==
    [is_valid |-> FALSE, errors |-> <<Issue(code, field, <<id>>)>>,
     warnings |-> <<Issue("NO_UNITS", "units", <<>>)>>]

\* the early return: ValidationResult(is_valid=False, errors=errors, warnings=warnings)
NotFound(code, field, id) ==
    [is_valid |-> FALSE, errors |-> <<Issue(code, field, <<id>>)>>, warnings |-> <<>>]

\* validate_list with _check_warlord run after _check_faction_consistency
ValidateListReordered(list_id) ==
    LET found == GetList(list_id)
    IN  IF found = None THEN NotFound("LIST_NOT_FOUND", "list_id", list_id)
        ELSE Checked(CheckPointLimit(Val(found))
                         \o CheckDatasheetLimits(Val(found))
                         \o CheckFactionConsistency(Val(found))
                         \o CheckWarlord(Val(found)),
                     CheckMinimumUnits(Val(found)))

\* validate_list
ValidateList(list_id) ==
    LET found == GetList(list_id)
    IN  IF found = None THEN NotFound("LIST_NOT_FOUND", "list_id", list_id)
        ELSE Checked(CheckPointLimit(Val(found))
                         \o CheckWarlord(Val(found))
                         \o CheckDatasheetLimits(Val(found))
                         \o CheckFactionConsistency(Val(found)),
                     CheckMinimumUnits(Val(found)))

\* the faction check of validate_unit_addition without the alliance rule
AdditionFactionIssueUnallied(list, datasheet) ==
    IF datasheet.faction_id # list.faction_id
    THEN <<Issue("FACTION_MISMATCH", "datasheet_id", <<datasheet.name, list.faction_id>>)>>
    ELSE <<>>

\* validate_unit_addition, lines 285-299: the faction check
AdditionFactionIssue(list, datasheet) ==
    IF /\ datasheet.faction_id # list.faction_id
       /\ ~AreFactionsAllied(list.faction_id, datasheet.faction_id)
    THEN <<Issue("FACTION_MISMATCH", "datasheet_id", <<datasheet.name, list.faction_id>>)>>
    ELSE <<>>

\* the projected count without the quantity
AdditionLimitIssueNoQuantity(list, datasheet, datasheet_id, quantity) ==
    LET new_count == CountOf(list.units, datasheet_id) + 1
        max_allowed == MaxAllowed(datasheet_id)
    IN  IF new_count > max_allowed
        THEN <<Issue("WOULD_EXCEED_DATASHEET_LIMIT", "quantity",
                     <<quantity, datasheet.name, new_count, max_allowed>>)>>
        ELSE <<>>

\* validate_unit_addition, lines 301-325: the projected count
AdditionLimitIssue(list, datasheet, datasheet_id, quantity) ==
    LET current_count == CountOf(list.units, datasheet_id)
        new_count == current_count + quantity
        max_allowed == MaxAllowed(datasheet_id)
    IN  IF new_count > max_allowed
        THEN <<Issue("WOULD_EXCEED_DATASHEET_LIMIT", "quantity",
                     <<quantity, datasheet.name, new_count, max_allowed>>)>>
        ELSE <<>>

\* validate_unit_addition
ValidateUnitAddition(list_id, datasheet_id, quantity) ==
    LET found == GetList(list_id)
        datasheet == GetDatasheet(datasheet_id)
    IN  IF found = None THEN NotFound("LIST_NOT_FOUND", "list_id", list_id)
        ELSE IF datasheet = None
        THEN NotFound("DATASHEET_NOT_FOUND", "datasheet_id", datasheet_id)
        ELSE Checked(AdditionFactionIssue(Val(found), Val(datasheet))
                         \o AdditionLimitIssue(Val(found), Val(datasheet), datasheet_id, quantity),
                     <<>>)

\* ListBuilder.calculate_unit_cost
BuilderUnitCost(datasheet_id, quantity) ==
    LET Mine(c) == c.datasheet_id = datasheet_id
        costs == OrderByLine(SelectSeq(catalog.costs, Mine))
    IN  IF costs = <<>> THEN 0 ELSE costs[1].cost * quantity

\* sum(unit.total_cost for unit in units)
RECURSIVE SumCosts(_)
SumCosts(us) ==
    IF us = <<>> THEN 0 ELSE SumCosts(SubSeq(us, 1, Len(us) - 1)) + us[Len(us)].total_cost

\* A unit entry is addressed by its position among the list's entries; the
\* unit_entry_id 0 names no entry.
UnitEntryIdArgs == 0..(IF army_list = None THEN 0 ELSE Len(Val(army_list).units))

\* units.filter(unit_entry_id == ..., list_id == ...).first()
HasUnit(list_id, unit_entry_id) ==
    /\ GetList(list_id) # None
    /\ unit_entry_id \in 1..Len(Val(army_list).units)

\* the sequence without its i-th element
RemoveAt(seq, i) == SubSeq(seq, 1, i - 1) \o SubSeq(seq, i + 1, Len(seq))

\* what a call that is not a validation leaves as the validation result
NoResult == result' = None

\* what a validation leaves: the call and the ValidationResult it returned
Returned(op, list_id, datasheet_id, quantity, value) ==
    Some([op |-> op, list_id |-> list_id, datasheet_id |-> datasheet_id,
          quantity |-> quantity, value |-> value])

\* ListBuilder.create_list; the store holds one list at a time
CreateList(faction_id, point_limit) ==
    /\ army_list' = Some([list_id |-> "L1", faction_id |-> faction_id,
                          point_limit |-> point_limit, total_points |-> 0,
                          units |-> <<>>])
    /\ NoResult
    /\ UNCHANGED <<catalog, call, requests, parserVars>>

\* ListBuilder.add_unit; a missing list or datasheet raises ValueError and
\* nothing is stored
AddUnit(list_id, datasheet_id, quantity) ==
    /\ IF GetList(list_id) = None \/ GetDatasheet(datasheet_id) = None
       THEN UNCHANGED army_list
       ELSE LET list == Val(army_list)
                cost == BuilderUnitCost(datasheet_id, quantity)
                unit_entry == [datasheet_id |-> datasheet_id, quantity |-> quantity,
                               total_cost |-> cost, is_warlord |-> FALSE]
            IN  army_list' = Some([list EXCEPT !.units = Append(@, unit_entry),
                                              !.total_points = @ + cost])
    /\ NoResult
    /\ UNCHANGED <<catalog, call, requests, parserVars>>

\* remove_unit without the update of the list's points
RemoveUnitKeepingPoints(list_id, unit_entry_id) ==
    /\ IF ~HasUnit(list_id, unit_entry_id)
       THEN UNCHANGED army_list
       ELSE army_list' = Some([Val(army_list) EXCEPT !.units = RemoveAt(@, unit_entry_id)])
    /\ NoResult
    /\ UNCHANGED <<catalog, call, requests, parserVars>>

\* ListBuilder.remove_unit
RemoveUnit(list_id, unit_entry_id) ==
    /\ IF ~HasUnit(list_id, unit_entry_id)
       THEN UNCHANGED army_list
       ELSE LET list == Val(army_list)
                unit_entry == list.units[unit_entry_id]
            IN  army_list' = Some([list EXCEPT !.units = RemoveAt(@, unit_entry_id),
                                              !.total_points = @ - unit_entry.total_cost])
    /\ NoResult
    /\ UNCHANGED <<catalog, call, requests, parserVars>>

\* ListBuilder.set_warlord
SetWarlord(list_id, unit_entry_id) ==
    /\ IF GetList(list_id) = None
       THEN UNCHANGED army_list
       ELSE LET list == Val(army_list)
            IN  army_list' = Some([list EXCEPT !.units =
                    [i \in 1..Len(@) |-> [@[i] EXCEPT !.is_warlord = (i = unit_entry_id)]]])
    /\ NoResult
    /\ UNCHANGED <<catalog, call, requests, parserVars>>

\* ListBuilder.update_list_points; a missing list raises ValueError
UpdateListPoints(list_id) ==
    /\ IF GetList(list_id) = None
       THEN UNCHANGED army_list
       ELSE LET list == Val(army_list)
            IN  army_list' = Some([list EXCEPT !.total_points = SumCosts(list.units)])
    /\ NoResult
    /\ UNCHANGED <<catalog, call, requests, parserVars>>

\* ListBuilder.delete_list; the unit entries go with the list
DeleteList(list_id) ==
    /\ IF GetList(list_id) = None THEN UNCHANGED army_list ELSE army_list' = None
    /\ NoResult
    /\ UNCHANGED <<catalog, call, requests, parserVars>>

\* a call of validate_list
ValidateListCall(list_id) ==
    /\ result' = Returned("validate_list", list_id, "", 0, ValidateList(list_id))
    /\ UNCHANGED <<catalog, call, requests, parserVars, army_list>>

\* a call of validate_unit_addition
ValidateUnitAdditionCall(list_id, datasheet_id, quantity) ==
    /\ result' = Returned("validate_unit_addition", list_id, datasheet_id, quantity,
                          ValidateUnitAddition(list_id, datasheet_id, quantity))
    /\ UNCHANGED <<catalog, call, requests, parserVars, army_list>>

\* the identifiers the callers pass
ListIdArgs == ListIds \cup {Missing}

DatasheetIdArgs == DatasheetIds \cup {Missing}

Init == catalog = ListCatalog /\ ParserIdle /\ ListsIdle /\ call = None

Create(factions) ==
    /\ army_list = None
    /\ \E faction_id \in factions, point_limit \in PointLimits :
           CreateList(faction_id, point_limit)

Add(max_units, quantities) ==
    /\ army_list # None
    /\ Len(Val(army_list).units) < max_units
    /\ \E list_id \in ListIdArgs, datasheet_id \in DatasheetIdArgs, quantity \in quantities :
           AddUnit(list_id, datasheet_id, quantity)

Remove ==
    \E list_id \in ListIdArgs, unit_entry_id \in UnitEntryIdArgs :
        RemoveUnit(list_id, unit_entry_id)

Warlord ==
    \E list_id \in ListIdArgs, unit_entry_id \in UnitEntryIdArgs :
        SetWarlord(list_id, unit_entry_id)

Recalculate == \E list_id \in ListIdArgs : UpdateListPoints(list_id)

Delete == \E list_id \in ListIdArgs : DeleteList(list_id)

Validate == \E list_id \in ListIdArgs : ValidateListCall(list_id)

ValidateAddition ==
    \E list_id \in ListIdArgs, datasheet_id \in DatasheetIdArgs, quantity \in CheckQuantities :
        ValidateUnitAdditionCall(list_id, datasheet_id, quantity)

Next ==
    \/ Create(ListFactions)
    \/ Add(MaxUnits, AddQuantities)
    \/ Remove
    \/ Warlord
    \/ Recalculate
    \/ Delete
    \/ Validate
    \/ ValidateAddition

Spec == Init /\ [][Next]_vars

InitLimits == catalog = LimitsCatalog /\ ParserIdle /\ ListsIdle /\ call = None

NextLimits ==
    \/ Create(AllFactions)
    \/ Add(MaxRepeats, DefaultQuantity)
    \/ Remove
    \/ Warlord
    \/ Recalculate
    \/ Delete
    \/ Validate
    \/ ValidateAddition

SpecLimits == InitLimits /\ [][NextLimits]_vars

(* routers/lists.py: the endpoints over the list services *)

\* what a request that is refused leaves: nothing stored, no validation result
Refused ==
    /\ NoResult
    /\ UNCHANGED <<catalog, call, requests, parserVars, army_list>>

\* POST /lists/{list_id}/units: the unit is added only when
\* validate_unit_addition accepts it (400 otherwise).  The response model is
\* built after add_unit has committed, so a quantity or cost that UnitEntry
\* refuses fails the request and leaves the unit stored.
PostUnit(list_id, datasheet_id, quantity) ==
    IF ~ValidateUnitAddition(list_id, datasheet_id, quantity).is_valid
    THEN Refused
    ELSE AddUnit(list_id, datasheet_id, quantity)

\* DELETE /lists/{list_id}/units/{unit_entry_id}: 404 when remove_unit
\* returns False
DeleteUnit(list_id, unit_entry_id) == RemoveUnit(list_id, unit_entry_id)

\* the warlord endpoint without its CHARACTER test
PutWarlordAnyUnit(list_id, unit_entry_id) ==
    IF ~HasUnit(list_id, unit_entry_id)
    THEN Refused
    ELSE SetWarlord(list_id, unit_entry_id)

\* PUT /lists/{list_id}/units/{unit_entry_id}/warlord: 404 when the unit is
\* not in the list, 400 when its datasheet has no CHARACTER keyword
PutWarlord(list_id, unit_entry_id) ==
    IF ~HasUnit(list_id, unit_entry_id)
    THEN Refused
    ELSE IF ~HasKeyword(Val(army_list).units[unit_entry_id].datasheet_id, "CHARACTER")
    THEN Refused
    ELSE SetWarlord(list_id, unit_entry_id)

\* the quantity query parameter is any int
EndpointQuantities == {-1, 0, 1}

\* the most unit entries a list is given through the endpoints
MaxEndpointUnits == 4

PostUnits ==
    /\ army_list # None
    /\ Len(Val(army_list).units) < MaxEndpointUnits
    /\ \E list_id \in ListIdArgs, datasheet_id \in DatasheetIdArgs,
          quantity \in EndpointQuantities :
           PostUnit(list_id, datasheet_id, quantity)

DeleteUnits ==
    \E list_id \in ListIdArgs, unit_entry_id \in UnitEntryIdArgs :
        DeleteUnit(list_id, unit_entry_id)

PutWarlords ==
    \E list_id \in ListIdArgs, unit_entry_id \in UnitEntryIdArgs :
        PutWarlord(list_id, unit_entry_id)

NextEndpoints ==
    \/ Create(ListFactions)
    \/ PostUnits
    \/ DeleteUnits
    \/ PutWarlords
    \/ Validate

SpecEndpoints == Init /\ [][NextEndpoints]_vars

\* tables with one datasheet of each of six factions: two Imperial, two
\* Chaos, and two that are in neither set
FactionsCatalog ==
    [datasheets |->
        << [datasheet_id |-> "000000001", name |-> "Space Marine Captain", faction_id |-> "SM"],
           [datasheet_id |-> "000000002", name |-> "Cadian Shock Troops", faction_id |-> "AM"],
           [datasheet_id |-> "000000003", name |-> "Chaos Spawn", faction_id |-> "CSM"],
           [datasheet_id |-> "000000004", name |-> "Plague Marines", faction_id |-> "DG"],
           [datasheet_id |-> "000000005", name |-> "Boyz", faction_id |-> "ORK"],
           [datasheet_id |-> "000000006", name |-> "Fire Warriors", faction_id |-> "TAU"] >>,
     keywords |->
        << [datasheet_id |-> "000000001", keyword |-> "CHARACTER"],
           [datasheet_id |-> "000000002", keyword |-> "BATTLELINE"] >>,
     model_stats |-> <<>>,
     costs |->
        << [datasheet_id |-> "000000001", line |-> 1, description |-> "1 model", cost |-> 100] >>,
     wargear |-> <<>>]

\* the factions of the lists: those of the datasheets
SixFactions == {"SM", "AM", "CSM", "DG", "ORK", "TAU"}

\* the most unit entries a list is given when it draws on the six factions
MaxFactionUnits == 1

InitFactions == catalog = FactionsCatalog /\ ParserIdle /\ ListsIdle /\ call = None

NextFactions ==
    \/ Create(SixFactions)
    \/ Add(MaxFactionUnits, DefaultQuantity)
    \/ Remove
    \/ Warlord
    \/ Recalculate
    \/ Delete
    \/ Validate
    \/ ValidateAddition

SpecFactions == InitFactions /\ [][NextFactions]_vars

----------------------------------------------------------------------------
(* POST /{list_id}/units served by two workers at once *)

\* Each request has a Session of its own (get_db) and nothing locks the list.
\* validate_unit_addition loads the army_lists row and its unit entries into
\* the request's Session; the row stays in that Session as it was read.
RequestValidate(w, list_id, datasheet_id, quantity) ==
    /\ requests[w].pc = "idle"
    /\ IF ~ValidateUnitAddition(list_id, datasheet_id, quantity).is_valid
       THEN UNCHANGED requests
       ELSE requests' = [requests EXCEPT ![w] =
                [pc |-> "validated", list_id |-> list_id, datasheet_id |-> datasheet_id,
                 quantity |-> quantity, total_points |-> Val(army_list).total_points]]
    /\ NoResult
    /\ UNCHANGED <<catalog, call, parserVars, army_list>>

\* ListBuilder.add_unit of a validated request: total_points += cost is
\* computed on the row as the Session read it, and the commit writes the new
\* unit entry and that total in one transaction.
RequestCommit(w) ==
    /\ requests[w].pc = "validated"
    /\ LET request == requests[w]
       IN  IF GetList(request.list_id) = None \/ GetDatasheet(request.datasheet_id) = None
           THEN UNCHANGED army_list
           ELSE LET list == Val(army_list)
                    cost == BuilderUnitCost(request.datasheet_id, request.quantity)
                    unit_entry == [datasheet_id |-> request.datasheet_id,
                                   quantity |-> request.quantity,
                                   total_cost |-> cost, is_warlord |-> FALSE]
                IN  army_list' = Some([list EXCEPT !.units = Append(@, unit_entry),
                                                  !.total_points = request.total_points + cost])
    /\ requests' = [requests EXCEPT ![w] = IdleRequest]
    /\ NoResult
    /\ UNCHANGED <<catalog, call, parserVars>>

\* the requests that have passed the validation and not yet committed
InFlight == {w \in Workers : requests[w].pc = "validated"}

\* the most unit entries a list is given by the concurrent requests
MaxConcurrentUnits == 4

StartRequest ==
    /\ army_list # None
    /\ Len(Val(army_list).units) + Cardinality(InFlight) < MaxConcurrentUnits
    /\ \E w \in Workers, list_id \in ListIdArgs, datasheet_id \in DatasheetIdArgs,
          quantity \in DefaultQuantity :
           RequestValidate(w, list_id, datasheet_id, quantity)

FinishRequest == \E w \in Workers : RequestCommit(w)

NextConcurrent ==
    \/ Create(ListFactions)
    \/ StartRequest
    \/ FinishRequest

SpecConcurrent == Init /\ [][NextConcurrent]_vars

----------------------------------------------------------------------------
(* Claims about the validator *)

\* the validation that returned last, its arguments and its ValidationResult
Last == Val(result)

\* a validate_list call has returned
ListValidated == result # None /\ Last.op = "validate_list"

\* a validate_unit_addition call has returned
AdditionValidated == result # None /\ Last.op = "validate_unit_addition"

\* the stored list is the one the last validation named
ListKnown == army_list # None /\ Val(army_list).list_id = Last.list_id

\* some datasheet row has the datasheet_id the last validation named
DatasheetKnown ==
    \E i \in 1..Len(catalog.datasheets) : catalog.datasheets[i].datasheet_id = Last.datasheet_id

\* the units of the stored list
Units == Val(army_list).units

\* how many of the issues carry the code
CountCode(issues, code) == Cardinality({i \in 1..Len(issues) : issues[i].code = code})

\* the faction_id and the name of a datasheet
FactionOf(datasheet_id) ==
    (CHOOSE ds \in {catalog.datasheets[i] : i \in 1..Len(catalog.datasheets)} :
        ds.datasheet_id = datasheet_id).faction_id

NameOf(datasheet_id) ==
    (CHOOSE ds \in {catalog.datasheets[i] : i \in 1..Len(catalog.datasheets)} :
        ds.datasheet_id = datasheet_id).name

\* two factions that differ and are not both Imperial or both Chaos
Incompatible(f, g) ==
    /\ f # g
    /\ ~({f, g} \subseteq ImperialFactions)
    /\ ~({f, g} \subseteq ChaosFactions)

\* the repetition limit of a datasheet
LimitOf(datasheet_id) ==
    IF \E i \in 1..Len(catalog.keywords) :
           catalog.keywords[i] = [datasheet_id |-> datasheet_id, keyword |-> "BATTLELINE"]
    THEN 6 ELSE 3

\* C4: every ValidationResult returned by validate_list and by
\* validate_unit_addition, early returns included, has is_valid true exactly
\* when its errors list is empty, whatever its warnings.
C4_ValidIffNoErrors ==
    result # None => (Last.value.is_valid <=> Last.value.errors = <<>>)

\* a result that is valid and carries a warning
C4_Witness ==
    /\ result # None
    /\ Last.value.is_valid
    /\ Last.value.errors = <<>>
    /\ Last.value.warnings # <<>>

\* C5: validate_list reports EXCEEDS_POINT_LIMIT exactly once when the list's
\* total points are strictly greater than its point limit, and not at all
\* otherwise (a list at exactly the limit gets none).
C5_PointLimit ==
    ListValidated /\ ListKnown =>
        CountCode(Last.value.errors, "EXCEEDS_POINT_LIMIT") =
            (IF Val(army_list).total_points > Val(army_list).point_limit THEN 1 ELSE 0)

\* a list of one entry, one point over its limit, validated with one such error
C5_Witness ==
    /\ ListValidated /\ ListKnown
    /\ Len(Units) = 1
    /\ Val(army_list).total_points = Val(army_list).point_limit + 1
    /\ CountCode(Last.value.errors, "EXCEEDS_POINT_LIMIT") = 1

\* C6: validate_list reports NO_WARLORD exactly once when the list has a unit,
\* no unit is flagged warlord and some unit's datasheet carries CHARACTER, and
\* not at all otherwise.
C6_NoWarlord ==
    ListValidated /\ ListKnown =>
        CountCode(Last.value.errors, "NO_WARLORD") =
            (IF /\ Units # <<>>
                /\ \A i \in 1..Len(Units) : ~Units[i].is_warlord
                /\ \E i \in 1..Len(Units) :
                       [datasheet_id |-> Units[i].datasheet_id, keyword |-> "CHARACTER"]
                           \in {catalog.keywords[k] : k \in 1..Len(catalog.keywords)}
             THEN 1 ELSE 0)

\* a list with a CHARACTER unit and another unit, no warlord, validated with
\* the error
C6_Witness ==
    /\ ListValidated /\ ListKnown
    /\ Len(Units) >= 2
    /\ \A i \in 1..Len(Units) : ~Units[i].is_warlord
    /\ Units[Len(Units)].datasheet_id = "000000001"
    /\ Units[1].datasheet_id # "000000001"
    /\ CountCode(Last.value.errors, "NO_WARLORD") = 1

\* the EXCEEDS_DATASHEET_LIMIT errors that name the datasheet
LimitErrorsAbout(datasheet_id) ==
    {i \in 1..Len(Last.value.errors) :
        /\ Last.value.errors[i].code = "EXCEEDS_DATASHEET_LIMIT"
        /\ Last.value.errors[i].about[1] = NameOf(datasheet_id)}

\* C7: validate_list reports exactly one EXCEEDS_DATASHEET_LIMIT error for
\* each datasheet with more units in the list than its limit (6 with
\* BATTLELINE, 3 without) and none for any other datasheet.
C7_DatasheetLimits ==
    ListValidated /\ ListKnown =>
        /\ \A d \in DatasheetIds :
               Cardinality(LimitErrorsAbout(d)) =
                   (IF Cardinality({i \in 1..Len(Units) : Units[i].datasheet_id = d}) > LimitOf(d)
                    THEN 1 ELSE 0)
        /\ CountCode(Last.value.errors, "EXCEEDS_DATASHEET_LIMIT") =
               Cardinality({d \in DatasheetIds :
                   Cardinality({i \in 1..Len(Units) : Units[i].datasheet_id = d}) > LimitOf(d)})

\* seven units of the battleline datasheet, validated with one error
C7_Witness ==
    /\ ListValidated /\ ListKnown
    /\ Len(Units) = 7
    /\ \A i \in 1..Len(Units) : Units[i].datasheet_id = "000000002"
    /\ CountCode(Last.value.errors, "EXCEEDS_DATASHEET_LIMIT") = 1

\* the units whose datasheet's faction is incompatible with the list's
Offending ==
    {i \in 1..Len(Units) :
        Incompatible(Val(army_list).faction_id, FactionOf(Units[i].datasheet_id))}

\* the FACTION_MISMATCH errors that name the datasheet
MismatchErrorsAbout(datasheet_id) ==
    {i \in 1..Len(Last.value.errors) :
        /\ Last.value.errors[i].code = "FACTION_MISMATCH"
        /\ Last.value.errors[i].about[1] = NameOf(datasheet_id)}

\* C8: validate_list reports exactly one FACTION_MISMATCH error for each unit
\* whose datasheet's faction differs from the list's and is not allied with
\* it, and none for any other unit.
C8_FactionMismatch ==
    ListValidated /\ ListKnown =>
        /\ CountCode(Last.value.errors, "FACTION_MISMATCH") = Cardinality(Offending)
        /\ \A d \in DatasheetIds :
               Cardinality(MismatchErrorsAbout(d)) =
                   Cardinality({i \in Offending : Units[i].datasheet_id = d})

\* an SM list with an AM unit and two CSM units, validated with two errors
C8_Witness ==
    /\ ListValidated /\ ListKnown
    /\ Val(army_list).faction_id = "SM"
    /\ \E i \in 1..Len(Units) : FactionOf(Units[i].datasheet_id) = "AM"
    /\ Cardinality({i \in 1..Len(Units) : FactionOf(Units[i].datasheet_id) = "CSM"}) = 2
    /\ CountCode(Last.value.errors, "FACTION_MISMATCH") = 2

\* the result has the one error and nothing else
OnlyError(code) ==
    /\ Len(Last.value.errors) = 1
    /\ Last.value.errors[1].code = code
    /\ Last.value.warnings = <<>>
    /\ ~Last.value.is_valid

\* C9: a missing identifier gives one error and no warnings: LIST_NOT_FOUND
\* from either validation when the list is unknown, whatever the datasheet,
\* and DATASHEET_NOT_FOUND from validate_unit_addition when the list exists
\* and the datasheet does not; is_valid is false.
C9_MissingIdentifier ==
    /\ result # None /\ ~ListKnown => OnlyError("LIST_NOT_FOUND")
    /\ AdditionValidated /\ ListKnown /\ ~DatasheetKnown => OnlyError("DATASHEET_NOT_FOUND")

\* an addition of an unknown datasheet to a list over its limits, answered
\* with DATASHEET_NOT_FOUND
C9_Witness ==
    /\ AdditionValidated /\ ListKnown /\ ~DatasheetKnown
    /\ Val(army_list).total_points > Val(army_list).point_limit
    /\ Last.value.errors[1].code = "DATASHEET_NOT_FOUND"

\* C10: for an existing list and datasheet, validate_unit_addition reports
\* WOULD_EXCEED_DATASHEET_LIMIT exactly when the units of the datasheet in the
\* list plus the quantity exceed the limit, FACTION_MISMATCH exactly when the
\* factions are incompatible, nothing else, and is valid when neither applies.
C10_UnitAddition ==
    AdditionValidated /\ ListKnown /\ DatasheetKnown =>
        LET d == Last.datasheet_id
            exceeds ==
                Cardinality({i \in 1..Len(Units) : Units[i].datasheet_id = d}) + Last.quantity
                    > LimitOf(d)
            mismatch == Incompatible(Val(army_list).faction_id, FactionOf(d))
            errors == Last.value.errors
        IN  /\ CountCode(errors, "WOULD_EXCEED_DATASHEET_LIMIT") = (IF exceeds THEN 1 ELSE 0)
            /\ CountCode(errors, "FACTION_MISMATCH") = (IF mismatch THEN 1 ELSE 0)
            /\ Len(errors) = (IF exceeds THEN 1 ELSE 0) + (IF mismatch THEN 1 ELSE 0)
            /\ Last.value.is_valid <=> ~exceeds /\ ~mismatch

\* both errors in one result, the limit passed only through the quantity
\* asked for: the two entries of the datasheet in the list, each of quantity
\* 2, count as two
C10_Witness ==
    /\ AdditionValidated /\ ListKnown /\ DatasheetKnown
    /\ Cardinality({i \in 1..Len(Units) : Units[i].datasheet_id = Last.datasheet_id}) = 2
    /\ \A i \in 1..Len(Units) : Units[i].quantity = 2
    /\ Last.quantity = 4
    /\ CountCode(Last.value.errors, "WOULD_EXCEED_DATASHEET_LIMIT") = 1
    /\ CountCode(Last.value.errors, "FACTION_MISMATCH") = 1

----------------------------------------------------------------------------
(* The functions without side effects, called on their own *)

\* what a call leaves: the function, its arguments and the value it returned
Called(fn, args, value) == Some([fn |-> fn, args |-> args, value |-> value])

\* the most model-count lines a unit is given
MaxModels == 3

\* the model-count lines the units are made of: each holds 'x ', as
\* _parse_units demands of an entry of unit['models']
ModelLines == {"4x A", "2x B", "1x C", "0x D", "Max E"}

\* a unit dict of _parse_units with the given model-count lines
UnitWithModels(models) ==
    [name |-> "Ork Boyz", points |-> 80, section |-> None, wargear |-> <<>>,
     models |-> models, is_warlord |-> FALSE, enhancements |-> <<>>]

\* a call of _parse_model_count
CallParseModelCount(models) ==
    /\ call' = Called("_parse_model_count", <<models>>,
                      ParseModelCount(UnitWithModels(models)))
    /\ UNCHANGED <<catalog, parserVars, listVars>>

CountModels ==
    \E n \in 0..MaxModels : \E models \in [1..n -> ModelLines] :
        CallParseModelCount(models)

\* the last call, when it was a call of the function
CalledFn(name) == call # None /\ Val(call).fn = name

\* the sum of count - 1 over the lines that carry '<integer>x '
RECURSIVE ExtraModels(_)
ExtraModels(models) ==
    IF models = <<>> THEN 0
    ELSE ExtraModels(Tail(models)) +
         (IF CountSearch(Head(models)) = None THEN 0 ELSE Val(CountSearch(Head(models))) - 1)

\* C11: the model count is 1 plus the sum of count - 1 over the lines that
\* carry '<integer>x ', floored at 1, and is the number of model-count lines
\* only when no line carries a number.
C11_ModelCount ==
    CalledFn("_parse_model_count") =>
        LET models == Val(call).args[1]
            numbered == \E k \in 1..Len(models) : CountSearch(models[k]) # None
        IN  Val(call).value =
                (IF numbered THEN Max({1, 1 + ExtraModels(models)})
                 ELSE Max({1, Len(models)}))

----------------------------------------------------------------------------
(* Claims about the parsed document *)

\* the unit headings of the text, in text order
Headings ==
    LET IsHeading(l) == HeadingOpen(Strip(l)) # 0
    IN  SelectSeq(lines, IsHeading)

\* the unit name that a heading line gives
HeadingName(l) == Strip(HeadingGroup1(Strip(l), HeadingOpen(Strip(l))))

\* C12: the units mapping of a parsed document has one entry per unit
\* heading of the text, in heading order, and its keys are pairwise distinct,
\* also when two units have the same name.
C12_OneEntryPerUnit ==
    ParseDone =>
        /\ Len(godot_units) = Len(Headings)
        /\ \A i \in 1..Len(godot_units) :
               /\ godot_units[i].value.meta.name = HeadingName(Headings[i])
               /\ godot_units[i].value.id = godot_units[i].key
        /\ \A i, j \in 1..Len(godot_units) :
               i # j => godot_units[i].key # godot_units[j].key

\* a finished call on a text with two units of the same name
C12_Witness ==
    /\ ParseDone
    /\ Len(Headings) = 2
    /\ HeadingName(Headings[1]) = HeadingName(Headings[2])
    /\ Len(godot_units) = 2
    /\ godot_units[1].key # godot_units[2].key

\* C19: parsing the empty text yields the faction name "Unknown", declared
\* points 0, detachment name "" and no units.
C19_EmptyText ==
    ParseDone /\ army_text = "" =>
        /\ Val(faction_info).name = "Unknown"
        /\ Val(faction_info).points = 0
        /\ Val(faction_info).detachment = ""
        /\ godot_units = <<>>

----------------------------------------------------------------------------
\* a line that carries a detachment keyword in any letter case
IsDetachmentLine(l) ==
    \E kw \in {"strike force", "patrol", "battalion"} : Contains(kw, Lower(l))

\* the first of the first five lines that carries a detachment keyword,
\* trimmed, and "" when none does
RECURSIVE FirstDetachment(_, _)
FirstDetachment(ls, i) ==
    IF i > Len(ls) \/ i > 5 THEN ""
    ELSE IF IsDetachmentLine(ls[i]) THEN Strip(ls[i])
    ELSE FirstDetachment(ls, i + 1)

\* C20: the detachment name of the document is the first line, among the
\* first five lines of the text, that contains 'strike force', 'patrol' or
\* 'battalion' in any letter case, trimmed, and "" when there is none; a later
\* matching line within the first five does not replace an earlier one.
C20_FirstDetachmentLine ==
    ParseDone => Val(faction_info).detachment = FirstDetachment(lines, 1)

\* the points of the first of the first five lines that carries the pattern
\* '(<integer> points)': the army header comes before the unit headings
RECURSIVE FirstPoints(_, _)
FirstPoints(ls, i) ==
    IF i > Len(ls) \/ i > 5 THEN 0
    ELSE IF PointsSearch(ls[i]) # None THEN Val(PointsSearch(ls[i]))
    ELSE FirstPoints(ls, i + 1)

\* C21: the declared points of the document are the integer of the
\* '(<integer> points)' pattern of the army header in the first five lines,
\* and 0 when none of the first five lines has the pattern; a unit heading
\* that falls within the first five lines does not replace the header's value.
C21_DeclaredPoints ==
    ParseDone => Val(faction_info).points = FirstPoints(lines, 1)

(* The line scan of _parse_units as a machine of two states *)

\* the scan has no open unit / has one
NoOpenUnit == current_unit = None

OpenUnit == current_unit # None

\* line i of the text is non-blank, is no section header and matches the
\* whole-line pattern '<name> (<integer> points)'
IsHeadingAt(i) ==
    LET line == Strip(lines[i])
    IN  line # "" /\ Upper(line) \notin SectionHeaders /\ HeadingOpen(line) # 0

IsSectionAt(i) == Upper(Strip(lines[i])) \in SectionHeaders

\* the positions of the headings among the first n lines
HeadingsUpTo(n) == {i \in 1..n : i <= Len(lines) /\ IsHeadingAt(i)}

\* the k-th smallest member of a set of positions
RECURSIVE Nth(_, _)
Nth(S, k) == IF k = 1 THEN Min(S) ELSE Nth(S \ {Min(S)}, k - 1)

\* the section label seen last before line i, None before any header
SectionBefore(i) ==
    LET hs == {j \in 1..(i - 1) : IsSectionAt(j)}
    IN  IF hs = {} THEN None ELSE Some(Upper(Strip(lines[Max(hs)])))

\* the units that the scan has opened so far, in order: the emitted ones and
\* the open one
Opened ==
    IF pc = "scan" /\ OpenUnit THEN Append(units, Val(current_unit)) ELSE units

\* the lines that the scan has consumed
Consumed == IF pc = "scan" THEN idx - 1 ELSE Len(lines)

\* C22: the line scan is a machine of two states: every non-blank line that
\* is no section header and matches '<name> (<integer> points)', also one that
\* starts with a bullet, emits the open unit (if any) and opens a unit whose
\* section is the label seen last (null before any header); bullet lines seen
\* with no open unit create no unit; at the end of the input the open unit is
\* emitted exactly once.  So the emitted units are the heading lines, one each.
C22_ScanMachine ==
    pc \in {"scan", "convert", "done"} =>
        LET hs == HeadingsUpTo(Consumed)
        IN  /\ Len(Opened) = Cardinality(hs)
            /\ pc = "scan" => (NoOpenUnit <=> hs = {})
            /\ pc = "scan" => Len(units) = (IF hs = {} THEN 0 ELSE Cardinality(hs) - 1)
            /\ \A k \in 1..Len(Opened) :
                   LET i == Nth(hs, k)
                   IN  /\ Opened[k].name = HeadingName(lines[i])
                       /\ Opened[k].points = HeadingGroup2(Strip(lines[i]), HeadingOpen(Strip(lines[i])))
                       /\ Opened[k].section = SectionBefore(i)

\* a finished scan of a text that begins with a bullet line and has a heading
\* that starts with a bullet, in a section
C22_Witness ==
    /\ pc = "convert"
    /\ army_text = SectionsText
    /\ Len(units) = 2
    /\ units[1].name = "* Guard"
    /\ units[1].section = Some("CHARACTERS")
    /\ units[2].section = Some("BATTLELINE")

\* the first line after heading i that is a heading or a section header, the
\* line after the last one when there is none: where the unit's lines end if
\* a unit accumulates the lines of its own section only
SectionEnd(i) ==
    LET stops == {j \in (i + 1)..Len(lines) : IsHeadingAt(j) \/ IsSectionAt(j)}
    IN  IF stops = {} THEN Len(lines) + 1 ELSE Min(stops)

\* the unit u after the lines from..(to - 1)
RECURSIVE Accumulate(_, _, _)
Accumulate(u, from, to) ==
    IF from >= to THEN u
    ELSE Accumulate(IF Strip(lines[from]) = "" THEN u ELSE MarkUnit(u, Strip(lines[from])),
                    from + 1, to)

\* C23: a unit accumulates only lines of the section in which its heading
\* appears: bullet lines between a section header and the next unit heading
\* are not added to the wargear, models or enhancements of the unit opened in
\* the section before, and do not set its warlord flag.
C23_SectionBoundsUnit ==
    pc \in {"convert", "done"} =>
        \A k \in 1..Len(units) :
            LET i == Nth(HeadingsUpTo(Len(lines)), k)
                own == Accumulate(NewUnit(Strip(lines[i]), HeadingOpen(Strip(lines[i])),
                                          SectionBefore(i)),
                                  i + 1, SectionEnd(i))
            IN  /\ units[k].wargear = own.wargear
                /\ units[k].models = own.models
                /\ units[k].enhancements = own.enhancements
                /\ units[k].is_warlord = own.is_warlord

\* the part of a line after the first occurrence of a marker, trimmed
After(marker, line) ==
    Strip(Drop(line, Min(Occurrences(marker, line)) + Len(marker) - 1))

\* the one effect that a line has on the open unit u, by priority
EffectOn(u, line) ==
    IF Contains("* Warlord", line) THEN [u EXCEPT !.is_warlord = TRUE]
    ELSE IF Contains("* Enhancement:", line)
    THEN [u EXCEPT !.enhancements = Append(@, After("* Enhancement:", line))]
    ELSE IF StartsWith(line, "* ") /\ Contains("x ", After("* ", line))
    THEN [u EXCEPT !.models = Append(@, After("* ", line))]
    ELSE IF StartsWith(line, "* ")
    THEN [u EXCEPT !.wargear = Append(@, After("* ", line))]
    ELSE u

\* a step of the scan over a line that is no heading, with a unit open
MarkerStep ==
    /\ pc = "scan" /\ pc' = "scan" /\ idx' = idx + 1
    /\ OpenUnit
    /\ ~IsHeadingAt(idx)

\* C24: within an open unit each line that is no heading has at most one
\* effect, by priority: a line containing the warlord marker sets is_warlord
\* and is added to no list; else a line containing the enhancement marker
\* appends its trimmed remainder to enhancements; else a line starting with a
\* bullet is appended to the model-count lines if it contains 'x ' and to the
\* wargear lines if not; any other line changes nothing.  The lists keep the
\* order of the lines, and is_warlord, once set, is never reset.
C24_OneEffectPerLine ==
    [][MarkerStep =>
          LET line == Strip(lines[idx])
              u == Val(current_unit)
          IN  /\ units' = units
              /\ current_unit' # None
              /\ Val(current_unit') =
                     (IF line = "" \/ IsSectionAt(idx) THEN u ELSE EffectOn(u, line))
              /\ u.is_warlord => Val(current_unit').is_warlord]_vars

\* a unit that has taken a line of each kind
C24_Witness ==
    /\ pc = "convert"
    /\ army_text = MarkersText
    /\ Len(units) = 1
    /\ units[1].is_warlord
    /\ units[1].enhancements = <<"Aura", "Veil">>
    /\ units[1].models = <<"4x Ork Boy", "2x Ork Boy">>
    /\ units[1].wargear = <<"Big choppa">>

(* The stats of a resolved unit *)

\* the stat line of a datasheet with the lowest line number, None without one
FirstStatLine(datasheet_id) ==
    LET mine == {i \in 1..Len(catalog.model_stats) :
                    catalog.model_stats[i].datasheet_id = datasheet_id}
    IN  IF mine = {} THEN None
        ELSE Some(catalog.model_stats[
                 CHOOSE i \in mine :
                     \A j \in mine : catalog.model_stats[i].line <= catalog.model_stats[j].line])

\* a typed value of the stat line, or the default when it is absent
TypedOr(v, default) == IF v = None THEN default ELSE Val(v)

\* the first integer of a text value of the stat line, or the default when
\* the value is absent or holds no integer
NumberOr(v, default) ==
    IF v = None \/ FirstInt(Val(v)) = None THEN default ELSE Val(FirstInt(Val(v)))

\* the six stats that the first stat line of a datasheet gives
StatsOf(datasheet_id) ==
    LET Field(name) ==
            IF FirstStatLine(datasheet_id) = None THEN None
            ELSE Val(FirstStatLine(datasheet_id))[name]
    IN  [move |-> NumberOr(Field("movement"), 6),
         toughness |-> TypedOr(Field("toughness"), 3),
         save |-> NumberOr(Field("save"), 3),
         wounds |-> TypedOr(Field("wounds"), 1),
         leadership |-> NumberOr(Field("leadership"), 6),
         objective_control |-> TypedOr(Field("objective_control"), 1)]

\* C26: the stats of every resolved unit carry move, toughness, save, wounds,
\* leadership and objective_control, each equal to the value of the first
\* stat line of its datasheet (lowest line number) or to its default (6, 3, 3,
\* 1, 6, 1) when the value is absent, whatever stat lines the catalog holds for
\* the datasheet; every model of the unit has the wounds of the unit's stats.
C26_ResolvedStats ==
    ParseDone =>
        \A i \in 1..Len(godot_units) :
            FindDatasheet(units[i].name) # None =>
                LET unit == godot_units[i].value
                    expected == StatsOf(Val(FindDatasheet(units[i].name)).datasheet_id)
                IN  /\ unit.meta.stats = expected
                    /\ \A j \in 1..Len(unit.models) :
                           unit.models[j].wounds = expected.wounds

(* parse_army_list called again on the same parser *)

\* the longest text that is parsed again, in lines
MaxRepeatLines == 2

RepeatTexts ==
    {ExampleText, MalformedText} \cup
    {Join(ls) : ls \in UNION {[1..n -> InputLines] : n \in 0..MaxRepeatLines}}

\* the value that a finished call returns
Document == [faction |-> Val(faction_info), units |-> godot_units]

\* the first call on the parser
ParseFirst == pc = "idle" /\ \E text \in RepeatTexts : ParseArmyList(text)

\* a further call on the same parser and the same catalog; the text and the
\* document of the first call are kept for comparison
ParseArmyListAgain(text) ==
    /\ pc = "done"
    /\ EnterParse(text)
    /\ call' = IF call = None THEN Called("parse_army_list", <<army_text>>, Document)
               ELSE call
    /\ UNCHANGED <<catalog, listVars>>

\* the further call is on the text of the first call or on the example text
ParseAgain ==
    /\ pc = "done"
    /\ \E text \in {IF call = None THEN army_text ELSE Val(call).args[1], ExampleText} :
           ParseArmyListAgain(text)

NextRepeat ==
    \/ ParseFirst
    \/ ScanLine
    \/ ScanEnd
    \/ ConvertUnit
    \/ ParseReturn
    \/ ParseAgain

SpecRepeat == InitParse /\ [][NextRepeat]_vars

----------------------------------------------------------------------------
(* Further claims about the validator *)

\* some unit of the stored list has a datasheet with the BATTLELINE keyword
SomeBattleline ==
    \E i \in 1..Len(Units) :
        [datasheet_id |-> Units[i].datasheet_id, keyword |-> "BATTLELINE"]
            \in {catalog.keywords[k] : k \in 1..Len(catalog.keywords)}

\* C14: validate_list warns NO_UNITS, and not NO_BATTLELINE, for a list with
\* no units; for a list with units it warns NO_BATTLELINE exactly when no
\* unit's datasheet carries BATTLELINE, and never NO_UNITS; neither is an
\* error, and a result without errors is valid whatever its warnings.
C14_MinimumUnits ==
    ListValidated /\ ListKnown =>
        LET warnings == Last.value.warnings
            errors == Last.value.errors
        IN  /\ CountCode(warnings, "NO_UNITS") = (IF Units = <<>> THEN 1 ELSE 0)
            /\ CountCode(warnings, "NO_BATTLELINE") =
                   (IF Units # <<>> /\ ~SomeBattleline THEN 1 ELSE 0)
            /\ Len(warnings) = CountCode(warnings, "NO_UNITS") + CountCode(warnings, "NO_BATTLELINE")
            /\ CountCode(errors, "NO_UNITS") = 0
            /\ CountCode(errors, "NO_BATTLELINE") = 0
            /\ errors = <<>> => Last.value.is_valid

\* a list with units, none of them battleline, whose only finding is the
\* NO_BATTLELINE warning, validated as valid
C14_Witness ==
    /\ ListValidated /\ ListKnown
    /\ Len(Units) >= 2
    /\ ~SomeBattleline
    /\ Last.value.errors = <<>>
    /\ CountCode(Last.value.warnings, "NO_BATTLELINE") = 1
    /\ Last.value.is_valid

\* the place of a check, by the code of its errors
Rank(code) ==
    CASE code = "EXCEEDS_POINT_LIMIT" -> 1
      [] code = "NO_WARLORD" -> 2
      [] code = "EXCEEDS_DATASHEET_LIMIT" -> 3
      [] code = "FACTION_MISMATCH" -> 4
      [] OTHER -> 0

\* what each rule yields on its own for the stored list
PointsOver == IF Val(army_list).total_points > Val(army_list).point_limit THEN 1 ELSE 0

WarlordMissing ==
    IF /\ Units # <<>>
       /\ \A i \in 1..Len(Units) : ~Units[i].is_warlord
       /\ \E i \in 1..Len(Units) :
              [datasheet_id |-> Units[i].datasheet_id, keyword |-> "CHARACTER"]
                  \in {catalog.keywords[k] : k \in 1..Len(catalog.keywords)}
    THEN 1 ELSE 0

DatasheetsOver ==
    Cardinality({d \in DatasheetIds :
        Cardinality({i \in 1..Len(Units) : Units[i].datasheet_id = d}) > LimitOf(d)})

\* C15: the errors of a validate_list result are in check order (point
\* limit, warlord, datasheet limits, faction mismatches), and for every
\* combination of violated rules the result holds exactly the errors and
\* warnings that each violation yields on its own.
C15_ChecksAccumulate ==
    ListValidated /\ ListKnown =>
        LET errors == Last.value.errors
            warnings == Last.value.warnings
        IN  /\ \A i, j \in 1..Len(errors) :
                   i < j => Rank(errors[i].code) <= Rank(errors[j].code)
            /\ CountCode(errors, "EXCEEDS_POINT_LIMIT") = PointsOver
            /\ CountCode(errors, "NO_WARLORD") = WarlordMissing
            /\ CountCode(errors, "EXCEEDS_DATASHEET_LIMIT") = DatasheetsOver
            /\ CountCode(errors, "FACTION_MISMATCH") = Cardinality(Offending)
            /\ Len(errors) = PointsOver + WarlordMissing + DatasheetsOver + Cardinality(Offending)
            /\ Len(warnings) = 1 <=> (Units = <<>> \/ ~SomeBattleline)
            /\ Len(warnings) <= 1

\* every rule violated at once: the result holds errors of all four checks
\* next to the NO_BATTLELINE warning
C15_Witness ==
    /\ ListValidated /\ ListKnown
    /\ \A code \in {"EXCEEDS_POINT_LIMIT", "NO_WARLORD", "EXCEEDS_DATASHEET_LIMIT",
                    "FACTION_MISMATCH"} : CountCode(Last.value.errors, code) >= 1
    /\ CountCode(Last.value.warnings, "NO_BATTLELINE") = 1

----------------------------------------------------------------------------
(* The alliance rule at both validations *)

\* two factions are compatible: they are the same, or both are Imperial, or
\* both are Chaos
Compatible(f, g) ==
    \/ f = g
    \/ {f, g} \subseteq {"SM", "AM", "AS", "GK", "AC", "AoI", "QI"}
    \/ {f, g} \subseteq {"CSM", "DG", "TS", "WE", "EC", "CD", "QT"}

\* C27: both validations decide FACTION_MISMATCH by one alliance rule: two
\* factions are compatible exactly when they are identical or both belong to
\* the same fixed set (Imperial or Chaos).  The rule is symmetric, holds for
\* identical factions in or out of the sets, and validate_unit_addition
\* rejects a candidate of faction G for a list of faction F exactly when
\* validate_list reports FACTION_MISMATCH for a unit of faction G in it.
C27_OneAllianceRule ==
    /\ ListValidated /\ ListKnown =>
           \A i \in 1..Len(Units) :
               MismatchErrorsAbout(Units[i].datasheet_id) # {}
                   <=> ~Compatible(Val(army_list).faction_id, FactionOf(Units[i].datasheet_id))
    /\ AdditionValidated /\ ListKnown /\ DatasheetKnown =>
           (CountCode(Last.value.errors, "FACTION_MISMATCH") = 1
                <=> ~Compatible(Val(army_list).faction_id, FactionOf(Last.datasheet_id)))
    /\ AdditionValidated /\ ListKnown /\ DatasheetKnown =>
           CountCode(Last.value.errors, "FACTION_MISMATCH") \in {0, 1}
    /\ \A f, g \in SixFactions : Compatible(f, g) <=> Compatible(g, f)

\* an addition to a list of a faction of neither set is validated: one of
\* the list's own faction passes while the list holds a unit of another
C27_Witness ==
    /\ AdditionValidated /\ ListKnown /\ DatasheetKnown
    /\ Val(army_list).faction_id = "ORK"
    /\ FactionOf(Last.datasheet_id) = "ORK"
    /\ Len(Units) = 1 /\ FactionOf(Units[1].datasheet_id) = "TAU"
    /\ CountCode(Last.value.errors, "FACTION_MISMATCH") = 0

----------------------------------------------------------------------------
(* Claims about the endpoints *)

\* the positions of the units flagged warlord
Warlords(list) == {i \in 1..Len(list.units) : list.units[i].is_warlord}

\* the same units, whatever their warlord flags
SameUnits(a, b) ==
    /\ Len(a.units) = Len(b.units)
    /\ \A i \in 1..Len(a.units) :
           [a.units[i] EXCEPT !.is_warlord = FALSE] = [b.units[i] EXCEPT !.is_warlord = FALSE]

\* C28: in every state reached through the add-unit, remove-unit and
\* set-warlord endpoints the list has at most one unit flagged warlord, and a
\* flagged unit's datasheet carries CHARACTER; a set-warlord request for a
\* unit that is not in the list, or whose datasheet lacks CHARACTER, changes
\* no warlord flag: a step that changes a flag leaves exactly the requested
\* CHARACTER unit flagged.
C28_OneCharacterWarlord ==
    [][/\ army_list' # None =>
              /\ Cardinality(Warlords(Val(army_list'))) <= 1
              /\ \A i \in Warlords(Val(army_list')) :
                     HasKeyword(Val(army_list').units[i].datasheet_id, "CHARACTER")
       /\ (/\ army_list # None /\ army_list' # None
           /\ SameUnits(Val(army_list), Val(army_list'))
           /\ Warlords(Val(army_list)) # Warlords(Val(army_list')))
              => Cardinality(Warlords(Val(army_list'))) = 1]_vars

\* a list with two CHARACTER units and a unit that is none, after the
\* warlord has moved from the first to the second
C28_Witness ==
    /\ army_list # None
    /\ Len(Units) = 3
    /\ HasKeyword(Units[1].datasheet_id, "CHARACTER")
    /\ HasKeyword(Units[2].datasheet_id, "CHARACTER")
    /\ ~HasKeyword(Units[3].datasheet_id, "CHARACTER")
    /\ Warlords(Val(army_list)) = {2}

\* C29: from a newly created list, after any sequence of add-unit requests
\* (each applied by add_unit only when validate_unit_addition accepts it, for
\* any integer quantity the endpoint lets through, 0 and negative values
\* included) and remove-unit requests, validate_list reports neither
\* EXCEEDS_DATASHEET_LIMIT nor FACTION_MISMATCH, and every stored unit has
\* quantity >= 1 and total_cost >= 0.
C29_AcceptedAdditionsStayLegal ==
    /\ army_list # None =>
           \A i \in 1..Len(Units) : Units[i].quantity >= 1 /\ Units[i].total_cost >= 0
    /\ ListValidated /\ ListKnown =>
           /\ CountCode(Last.value.errors, "EXCEEDS_DATASHEET_LIMIT") = 0
           /\ CountCode(Last.value.errors, "FACTION_MISMATCH") = 0

\* C30: when two add-unit requests for the same list are processed
\* concurrently, each validating and then storing its unit and the new
\* total_points, every interleaving ends, once no request is in progress, in a
\* list whose total_points is the sum of its units' total_cost and that holds
\* of each datasheet no more units than the limit validate_unit_addition
\* enforced (3, or 6 for BATTLELINE).
C30_ConcurrentAddsConsistent ==
    army_list # None /\ requests = NoRequests =>
        /\ Val(army_list).total_points = SumCosts(Units)
        /\ \A datasheet_id \in DatasheetIds :
               CountOf(Units, datasheet_id) <= LimitOf(datasheet_id)

----------------------------------------------------------------------------
(* calculator.py (PointsCalculator) *)

\* str(n) of an integer
RECURSIVE IntStr(_)
IntStr(n) ==
    IF n < 0 THEN "-" \o IntStr(0 - n)
    ELSE IF n < 10 THEN Char(Digits, n + 1)
    ELSE IntStr(n \div 10) \o Char(Digits, (n % 10) + 1)

\* datasheets whose names are parts of, or hold, the names of others, stored
\* after them
ShortNamedDatasheets ==
    << [datasheet_id |-> "3", name |-> "Guard", faction_id |-> "AM"],
       [datasheet_id |-> "4", name |-> "Blade", faction_id |-> "AM"],
       [datasheet_id |-> "5", name |-> "Old Guardsman", faction_id |-> "AM"] >>

\* The reference tables with cost rows for the calculator: rows stored out
\* of line order, two descriptions that hold "5 model", a row that costs
\* nothing, a capitalised description, and a datasheet without cost rows.
CostCatalog ==
    [ParserCatalog EXCEPT !.datasheets = @ \o ShortNamedDatasheets, !.costs =
        << [datasheet_id |-> "1", line |-> 3, description |-> "15 models", cost |-> 300],
           [datasheet_id |-> "1", line |-> 1, description |-> "1 model", cost |-> 120],
           [datasheet_id |-> "1", line |-> 2, description |-> "5 models", cost |-> 200],
           [datasheet_id |-> "2", line |-> 1, description |-> "4 models", cost |-> 150],
           [datasheet_id |-> "2", line |-> 2, description |-> "5 models", cost |-> 0],
           [datasheet_id |-> "2", line |-> 3, description |-> "10 Models", cost |-> 400] >>]

\* get_unit_cost_options
GetUnitCostOptions(datasheet_id) ==
    LET Mine(c) == c.datasheet_id = datasheet_id
        costs == OrderByLine(SelectSeq(catalog.costs, Mine))
    IN  [i \in 1..Len(costs) |->
            [line |-> costs[i].line, description |-> costs[i].description,
             cost |-> costs[i].cost]]

\* calculate_unit_cost, lines 63-69: the loop over the options from k on,
\* which stops at the first description that holds the model count
RECURSIVE BaseCostLoop(_, _, _)
BaseCostLoop(cost_options, k, model_count) ==
    IF k > Len(cost_options) THEN 0
    ELSE IF Contains(IntStr(model_count) \o " model", Lower(cost_options[k].description))
    THEN cost_options[k].cost
    ELSE BaseCostLoop(cost_options, k + 1, model_count)

\* calculate_unit_cost; the wargear and enhancement costs are 0
CalculateUnitCost(datasheet_id, model_count) ==
    LET cost_options == GetUnitCostOptions(datasheet_id)
        found == BaseCostLoop(cost_options, 1, model_count)
        base_cost == IF found = 0 /\ cost_options # <<>> THEN cost_options[1].cost ELSE found
    IN  IF cost_options = <<>> THEN 0 ELSE base_cost + 0 + 0

\* the datasheet_id and model_count arguments that are tried
CostDatasheetIds == {"1", "2", Missing}

ModelCounts == {1, 4, 5, 10, 15}

\* a call of calculate_unit_cost
CallCalculateUnitCost(datasheet_id, model_count) ==
    /\ call' = Called("calculate_unit_cost", <<datasheet_id, model_count>>,
                      CalculateUnitCost(datasheet_id, model_count))
    /\ UNCHANGED <<catalog, parserVars, listVars>>

UnitCost ==
    \E datasheet_id \in CostDatasheetIds, model_count \in ModelCounts :
        CallCalculateUnitCost(datasheet_id, model_count)

\* the cost rows of a datasheet whose description holds the model count,
\* in whatever case the description is written
CostMatches(datasheet_id, model_count) ==
    {k \in 1..Len(catalog.costs) :
        /\ catalog.costs[k].datasheet_id = datasheet_id
        /\ Contains(IntStr(model_count) \o " model", Lower(catalog.costs[k].description))}

\* the cost rows of a datasheet
CostRows(datasheet_id) ==
    {k \in 1..Len(catalog.costs) : catalog.costs[k].datasheet_id = datasheet_id}

\* the row of lowest line among the rows
LowestLine(rows) == CHOOSE k \in rows : \A j \in rows : catalog.costs[k].line <= catalog.costs[j].line

\* C16: calculate_unit_cost returns the cost of the first cost row, by
\* ascending line, whose description contains '<modelCount> model'; the cost
\* of the row of lowest line only when no row matches; 0 when the datasheet
\* has no cost rows.
C16_UnitCost ==
    CalledFn("calculate_unit_cost") =>
        LET datasheet_id == Val(call).args[1]
            model_count == Val(call).args[2]
            matches == CostMatches(datasheet_id, model_count)
            rows == CostRows(datasheet_id)
        IN  Val(call).value =
                (IF rows = {} THEN 0
                 ELSE IF matches # {} THEN catalog.costs[LowestLine(matches)].cost
                 ELSE catalog.costs[LowestLine(rows)].cost)

\* PointsCalculator.calculate_list_total: the sum over the unit entries
\* that have the list_id
CalculateListTotal(list_id) ==
    IF GetList(list_id) = None THEN 0 ELSE SumCosts(Val(army_list).units)

\* the sum of the field total_cost over a sequence of unit entries
RECURSIVE TotalCost(_)
TotalCost(us) == IF us = <<>> THEN 0 ELSE Head(us).total_cost + TotalCost(Tail(us))

\* C17: after any sequence of create_list, add_unit and remove_unit, the
\* stored total_points of the list, which validation compares with the point
\* limit, equals the sum of total_cost over the units in the list, which is
\* also what calculate_list_total returns.
C17_TotalNeverStale ==
    /\ army_list # None =>
           /\ Val(army_list).total_points = TotalCost(Units)
           /\ CalculateListTotal(Val(army_list).list_id) = TotalCost(Units)
    /\ ListValidated /\ ListKnown =>
           (CountCode(Last.value.errors, "EXCEEDS_POINT_LIMIT") = 1
               <=> TotalCost(Units) > Val(army_list).point_limit)

\* a validated list of two entries of different costs, over its limit
C17_Witness ==
    /\ ListValidated /\ ListKnown
    /\ Len(Units) = 2
    /\ Units[1].total_cost = 202
    /\ Units[2].total_cost = 100
    /\ Val(army_list).total_points = 302
    /\ CountCode(Last.value.errors, "EXCEEDS_POINT_LIMIT") = 1

----------------------------------------------------------------------------
(* models/army_list.py: the ArmyList value *)

\* the most unit entries an ArmyList value is built from
MaxEntries == 2

\* the total_cost values of the UnitEntry values that are tried (ge=0)
EntryCosts == {0, 85, 200}

\* UnitEntry(datasheet_id=..., total_cost=...) with its defaults
UnitEntry(total_cost) ==
    [datasheet_id |-> "000000001", quantity |-> 1, total_cost |-> total_cost,
     is_warlord |-> FALSE]

\* ArmyList.calculate_total, the "before" validator of total_points
CalculateTotal(v, data_units) ==
    IF data_units # <<>> THEN SumCosts(data_units) ELSE v

\* ArmyList(name=..., faction_id=..., units=units[, total_points=v]): a field
\* validator is run on a value that is passed, not on the default of a
\* field that is left out (Field(0) without validate_default), so a
\* total_points that is not passed stays at its default
NewArmyList(units_arg, total_points_arg) ==
    [faction_id |-> "SM", point_limit |-> 2000, units |-> units_arg,
     total_points |-> IF total_points_arg = None THEN 0
                      ELSE CalculateTotal(Val(total_points_arg), units_arg)]

\* the total_points arguments that are tried: left out, or passed
TotalPointsArgs == {None, Some(0), Some(999)}

\* a construction of an ArmyList value
CallArmyList(units_arg, total_points_arg) ==
    /\ call' = Called("ArmyList", <<units_arg, total_points_arg>>,
                      NewArmyList(units_arg, total_points_arg))
    /\ UNCHANGED <<catalog, parserVars, listVars>>

BuildArmyList ==
    \E n \in 0..MaxEntries : \E costs \in [1..n -> EntryCosts] :
        \E total_points_arg \in TotalPointsArgs :
            CallArmyList([i \in 1..n |-> UnitEntry(costs[i])], total_points_arg)

\* C18: an ArmyList value built from a non-empty list of units has
\* total_points equal to the sum of its units' total_cost, also when
\* total_points is not passed to the constructor.
C18_ArmyListTotal ==
    CalledFn("ArmyList") /\ Val(call).args[1] # <<>> =>
        Val(call).value.total_points = TotalCost(Val(call).args[1])

----------------------------------------------------------------------------
(* _find_datasheet called on its own *)

\* unit names: equal to a name, part of a name, holding a name, neither, and
\* parts of a name in another letter case
UnitNames ==
    {"Blade Champion", "Guard", "Blade", "Blade Champ", "Guards",
     "Blade Champion Elite", "Ork Boyz", "custodian g", "blade champ"}

\* a call of _find_datasheet
CallFindDatasheet(unit_name) ==
    /\ call' = Called("_find_datasheet", <<unit_name>>, FindDatasheet(unit_name))
    /\ UNCHANGED <<catalog, parserVars, listVars>>

FindByName == \E unit_name \in UnitNames : CallFindDatasheet(unit_name)

\* the entries whose name is the unit name / holds the unit name / is held by
\* the unit name when both are lower-cased, each in catalog order
NameEquals(unit_name) ==
    LET Test(ds) == ds.name = unit_name IN SelectSeq(catalog.datasheets, Test)

NameContains(unit_name) ==
    LET Test(ds) == Contains(unit_name, ds.name) IN SelectSeq(catalog.datasheets, Test)

NameContained(unit_name) ==
    LET Test(ds) == Contains(Lower(ds.name), Lower(unit_name))
    IN  SelectSeq(catalog.datasheets, Test)

\* C25: _find_datasheet returns an entry whose name equals the unit name
\* whenever one exists; otherwise an entry whose name contains the unit name
\* as a substring whenever one exists; otherwise the first entry, in catalog
\* order, whose lower-cased name is contained in the lower-cased unit name; it
\* returns null exactly when no entry passes any of the three tests, and a
\* match of a later tier never overrides a match of an earlier tier.
C25_FindDatasheet ==
    CalledFn("_find_datasheet") =>
        LET unit_name == Val(call).args[1]
            found == Val(call).value
        IN  IF NameEquals(unit_name) # <<>>
            THEN found # None /\ Val(found).name = unit_name
            ELSE IF NameContains(unit_name) # <<>>
            THEN found # None /\ Contains(unit_name, Val(found).name)
            ELSE IF NameContained(unit_name) # <<>>
            THEN found = Some(NameContained(unit_name)[1])
            ELSE found = None

----------------------------------------------------------------------------
(* The specification of the calls *)

InitCalls == catalog = CostCatalog /\ ParserIdle /\ ListsIdle /\ call = None

NextCalls ==
    \/ CountModels
    \/ UnitCost
    \/ BuildArmyList
    \/ FindByName

SpecCalls == InitCalls /\ [][NextCalls]_vars

====
